---------------------------- MODULE Spec2Model ----------------------------
(***************************************************************************)
(* A model of the trie router of bytepai/invoke (src/router.go).           *)
(*                                                                         *)
(* Strings are sequences of characters (one-character TLA+ strings, plus   *)
(* the character-class atom "[0-9]" of a regular expression), so that      *)
(* splitPath, strings.ToLower, getNodeTypeAndPattern and the Prefix + path *)
(* concatenation are computed as the code computes them.                   *)
(*                                                                         *)
(* The heap is explicit: nodes is the set of TrieNode objects (index 1 is  *)
(* the shared root), routers the router objects (index 1 is NewRouter(),   *)
(* the others were made by Group), arrays the backing arrays of the        *)
(* BeforeHooks / AfterHooks slices, which Group shares between the parent  *)
(* and the new view.                                                       *)
(***************************************************************************)
EXTENDS Integers, Sequences, FiniteSets, TLC

(***************************************************************************)
(* Bounds of the model.                                                    *)
(***************************************************************************)
MaxRoutes == 2
MaxGroups == 2
MaxHooks == 2
MaxGroupHooks == 5
MaxSetters == 1
MaxHookRoutes == 1
MaxHookGroups == 1
MaxRequests == 2
MaxServes == 1

(***************************************************************************)
(* Go values.                                                              *)
(***************************************************************************)
Static == 0
Param == 1
Regex == 2

EmptyString == << >>

\* A nil func value, and the two kinds of non-nil func values a node's
\* Handler can hold: a function passed to AddRoute as it is (r = 0), and the
\* closure registerRoute builds, which captures the router r it was called on
\* and the user's handler.
NilFunc == [kind |-> "nil", r |-> 0, name |-> ""]
Func(name) == [kind |-> "func", r |-> 0, name |-> name]
Closure(r, name) == [kind |-> "closure", r |-> r, name |-> name]

(***************************************************************************)
(* package strings                                                         *)
(***************************************************************************)
\* unicode.ToLower on one character of the model's alphabet.
LowerChar(c) ==
    CASE c = "A" -> "a"
      [] c = "B" -> "b"
      [] c = "G" -> "g"
      [] c = "X" -> "x"
      [] OTHER -> c

ToLower(s) == [i \in 1..Len(s) |-> LowerChar(s[i])]

HasPrefix(s, p) == Len(s) >= Len(p) /\ SubSeq(s, 1, Len(p)) = p

HasSuffix(s, p) == Len(s) >= Len(p) /\ SubSeq(s, Len(s) - Len(p) + 1, Len(s)) = p

RECURSIVE TrimLeft(_, _)
TrimLeft(s, c) ==
    IF s # << >> /\ Head(s) = c THEN TrimLeft(Tail(s), c) ELSE s

RECURSIVE TrimRight(_, _)
TrimRight(s, c) ==
    IF s # << >> /\ s[Len(s)] = c THEN TrimRight(SubSeq(s, 1, Len(s) - 1), c) ELSE s

\* strings.Trim(s, cutset) for a cutset of one character.
Trim(s, c) == TrimRight(TrimLeft(s, c), c)

\* The position of the first occurrence of character c in s, 0 when absent.
RECURSIVE IndexFrom(_, _, _)
IndexFrom(s, c, i) ==
    IF i > Len(s) THEN 0
    ELSE IF s[i] = c THEN i
    ELSE IndexFrom(s, c, i + 1)

Index(s, c) == IndexFrom(s, c, 1)

\* strings.Split(s, sep) for a separator of one character: n separators
\* give n + 1 parts, and the empty string gives one empty part.
RECURSIVE Split(_, _)
Split(s, c) ==
    LET i == Index(s, c)
    IN  IF i = 0 THEN << s >>
        ELSE << SubSeq(s, 1, i - 1) >> \o Split(SubSeq(s, i + 1, Len(s)), c)

\* strings.SplitN(s, sep, 2): at most two parts, cut at the first separator.
SplitN2(s, c) ==
    LET i == Index(s, c)
    IN  IF i = 0 THEN << s >>
        ELSE << SubSeq(s, 1, i - 1), SubSeq(s, i + 1, Len(s)) >>

(***************************************************************************)
(* splitPath, getNodeTypeAndPattern                                        *)
(***************************************************************************)
splitPath(path) == Split(Trim(path, "/"), "/")

getNodeTypeAndPattern(part) ==
    IF HasPrefix(part, << ":" >>)
    THEN [nodeType |-> Param, pattern |-> Tail(part), paramName |-> EmptyString]
    ELSE IF HasPrefix(part, << "{" >>) /\ HasSuffix(part, << "}" >>)
    THEN LET content == SubSeq(part, 2, Len(part) - 1)
             patternParts == SplitN2(content, ":")
         IN  IF Len(patternParts) < 2
             THEN [nodeType |-> Static, pattern |-> part,
                   paramName |-> EmptyString]
             ELSE [nodeType |-> Regex, pattern |-> patternParts[2],
                   paramName |-> patternParts[1]]
    ELSE [nodeType |-> Static, pattern |-> part, paramName |-> EmptyString]

(***************************************************************************)
(* package regexp, for the patterns of the model: a pattern is a sequence  *)
(* of atoms (a literal character, the class "[0-9]", the wildcard "."),    *)
(* each optionally followed by the greedy repetition "+" or "*".  An       *)
(* unclosed "(" or a repetition with nothing to repeat does not compile.   *)
(***************************************************************************)
IsRepeat(c) == c \in {"+", "*"}

\* regexp.Compile reports an error (and MustCompile panics).
CompileFails(p) ==
    \E i \in 1..Len(p) :
        \/ p[i] = "("
        \/ IsRepeat(p[i]) /\ (i = 1 \/ IsRepeat(p[i - 1]))

Digits == {"0", "1", "2", "3", "4", "5", "6", "7", "8", "9"}

AtomMatches(a, c) ==
    CASE a = "[0-9]" -> c \in Digits
      [] a = "." -> TRUE
      [] OTHER -> a = c

\* The number of characters of s from position i on that atom a matches.
RECURSIVE Run(_, _, _)
Run(a, s, i) ==
    IF i <= Len(s) /\ AtomMatches(a, s[i]) THEN 1 + Run(a, s, i + 1) ELSE 0

\* The backtracking match of p from position k against s from position i:
\* the position after the match the engine prefers (greedy repetitions take
\* the longest run first), or 0 when there is none.
RECURSIVE MatchFrom(_, _, _, _), TryRepeat(_, _, _, _, _, _)
MatchFrom(p, k, s, i) ==
    IF k > Len(p) THEN i
    ELSE IF k < Len(p) /\ IsRepeat(p[k + 1])
    THEN TryRepeat(p, k, s, i, Run(p[k], s, i), IF p[k + 1] = "+" THEN 1 ELSE 0)
    ELSE IF i <= Len(s) /\ AtomMatches(p[k], s[i])
    THEN MatchFrom(p, k + 1, s, i + 1)
    ELSE 0

TryRepeat(p, k, s, i, n, min) ==
    IF n < min THEN 0
    ELSE LET e == MatchFrom(p, k + 2, s, i + n)
         IN  IF e # 0 THEN e ELSE TryRepeat(p, k, s, i, n - 1, min)

\* (*Regexp).FindString: the text of the leftmost match, and the empty
\* string when there is no match.
RECURSIVE FindStringFrom(_, _, _)
FindStringFrom(p, s, start) ==
    IF start > Len(s) + 1 THEN EmptyString
    ELSE LET e == MatchFrom(p, 1, s, start)
         IN  IF e # 0 THEN SubSeq(s, start, e - 1)
             ELSE FindStringFrom(p, s, start + 1)

FindString(p, s) == FindStringFrom(p, s, 1)

(***************************************************************************)
(* The callbacks the application passes in.  A callback is named, and what *)
(* it does when called is fixed by its name: a before-hook returns true or *)
(* false or panics, every other callback returns or panics.                *)
(***************************************************************************)
Outcome(f) ==
    CASE f \in {"bPanic", "aPanic", "hPanic", "recPanic", "nfPanic",
                "assetsPanic"} -> "panic"
      [] f \in {"bAbort", "gAbort", "assetsHandled"} -> "false"
      [] OTHER -> "true"

(***************************************************************************)
(* Slices of hooks.  A slice is a window [arr, len, cap] on a backing      *)
(* array of the heap `arrays`; arr = 0 is a slice without backing array,   *)
(* the nil slice or the empty literal.  append writes in place while       *)
(* len < cap and moves to a fresh array of doubled capacity otherwise.     *)
(***************************************************************************)
NilSlice == [arr |-> 0, len |-> 0, cap |-> 0]

Elems(arrs, s) == IF s.arr = 0 THEN << >> ELSE SubSeq(arrs[s.arr], 1, s.len)

GrowCap(c) == IF c = 0 THEN 1 ELSE 2 * c

\* The capacity append gives a slice of capacity 0 that gets n one-word
\* elements at once: n rounded up to the allocator's size class.
CopyCap(n) == IF n <= 4 THEN n ELSE n + (n % 2)

\* append([]T{}, s...): the heap of arrays and the slice returned, whose
\* array is a new one when s has elements.
CopySlice(arrs, s) ==
    IF s.len = 0 THEN [arrays |-> arrs, slice |-> NilSlice]
    ELSE LET c == CopyCap(s.len)
             a == [i \in 1..c |-> IF i <= s.len THEN arrs[s.arr][i] ELSE ""]
         IN  [arrays |-> Append(arrs, a),
              slice |-> [arr |-> Len(arrs) + 1, len |-> s.len, cap |-> c]]

\* append(s, x): the heap of arrays and the slice returned.
AppendSlice(arrs, s, x) ==
    IF s.len < s.cap
    THEN [arrays |-> [arrs EXCEPT ![s.arr][s.len + 1] = x],
          slice |-> [s EXCEPT !.len = s.len + 1]]
    ELSE LET c == GrowCap(s.cap)
             a == [i \in 1..c |->
                      IF i <= s.len THEN arrs[s.arr][i]
                      ELSE IF i = s.len + 1 THEN x
                      ELSE ""]
         IN  [arrays |-> Append(arrs, a),
              slice |-> [arr |-> Len(arrs) + 1, len |-> s.len + 1, cap |-> c]]

(***************************************************************************)
(* The trie.                                                               *)
(***************************************************************************)
EmptyMap == << >>

MapPut(m, k, v) == [x \in DOMAIN m \cup {k} |-> IF x = k THEN v ELSE m[x]]

\* NewRouter's root node.
RootNode ==
    [Children |-> << >>, Handler |-> NilFunc, Level |-> 0,
     Pattern |-> EmptyString, NodeType |-> Static, Method |-> "",
     FullPath |-> EmptyString]

\* The test of AddRoute for descending into an existing child.
SameChild(child, pattern, nodeType, method) ==
    child.Pattern = pattern /\ child.NodeType = nodeType /\ child.Method = method

\* The scan of curr.Children in AddRoute: the first child, from position j,
\* with this pattern, node type and method; 0 when there is none.
RECURSIVE FindChild(_, _, _, _, _, _)
FindChild(ns, children, j, pattern, nodeType, method) ==
    IF j > Len(children) THEN 0
    ELSE LET child == ns[children[j]]
         IN  IF SameChild(child, pattern, nodeType, method)
             THEN children[j]
             ELSE FindChild(ns, children, j + 1, pattern, nodeType, method)

\* The loop of AddRoute over the parts of the path: the heap of nodes and
\* the node the walk ends at.
RECURSIVE AddRouteWalk(_, _, _, _)
AddRouteWalk(ns, curr, parts, method) ==
    IF parts = << >> THEN [nodes |-> ns, curr |-> curr]
    ELSE LET t == getNodeTypeAndPattern(Head(parts))
             c == FindChild(ns, ns[curr].Children, 1, t.pattern, t.nodeType,
                            method)
             new == Len(ns) + 1
             newNode ==
                 [Children |-> << >>, Handler |-> NilFunc,
                  Level |-> ns[curr].Level + 1,
                  Pattern |-> IF t.nodeType = Regex
                              THEN t.paramName \o << ":" >> \o t.pattern
                              ELSE t.pattern,
                  NodeType |-> t.nodeType, Method |-> method,
                  FullPath |-> ns[curr].FullPath \o << "/" >> \o t.pattern]
         IN  IF c # 0
             THEN AddRouteWalk(ns, c, Tail(parts), method)
             ELSE AddRouteWalk(
                      Append([ns EXCEPT ![curr].Children = Append(@, new)],
                             newNode),
                      new, Tail(parts), method)

\* (AddRouteValidating: an AddRoute that compiles the pattern of every
\* regular-expression segment and panics when one does not compile.)
AddRouteValidating(ns, method, path, handler) ==
    LET w == AddRouteWalk(ns, 1, splitPath(path), method)
        bad == \E i \in 1..Len(splitPath(path)) :
                   /\ getNodeTypeAndPattern(splitPath(path)[i]).nodeType = Regex
                   /\ CompileFails(getNodeTypeAndPattern(splitPath(path)[i]).pattern)
    IN  IF bad \/ w.nodes[w.curr].Handler # NilFunc
        THEN [nodes |-> w.nodes, panic |-> TRUE, curr |-> w.curr]
        ELSE [nodes |-> [w.nodes EXCEPT ![w.curr].Handler = handler],
              panic |-> FALSE, curr |-> w.curr]

\* router.AddRoute on the heap ns: the heap it leaves and whether it panics.
AddRoute(ns, method, path, handler) ==
    LET w == AddRouteWalk(ns, 1, splitPath(path), method)
    IN  IF w.nodes[w.curr].Handler # NilFunc
        THEN [nodes |-> w.nodes, panic |-> TRUE, curr |-> w.curr]
        ELSE [nodes |-> [w.nodes EXCEPT ![w.curr].Handler = handler],
              panic |-> FALSE, curr |-> w.curr]

(***************************************************************************)
(* The routers.                                                            *)
(***************************************************************************)
\* NewRouter.
NewRouter ==
    [Root |-> 1, Param |-> EmptyMap, BeforeHooks |-> NilSlice,
     AfterHooks |-> NilSlice, NotFound |-> Func("defaultNotFoundHandler"),
     Prefix |-> EmptyString, GroupBefore |-> NilSlice, GroupAfter |-> NilSlice,
     RecoveryHandler |-> NilFunc, Assets |-> Func("defaultAssetsHandler")]

\* (GroupSharingLists: a Group that copies the headers of the two group
\* slices as it copies those of the global ones.)
GroupSharingLists(arrs, r, prefix) ==
    [arrays |-> arrs,
     router |->
        [Root |-> r.Root, Param |-> r.Param, BeforeHooks |-> r.BeforeHooks,
         AfterHooks |-> r.AfterHooks, NotFound |-> r.NotFound,
         Prefix |-> r.Prefix \o prefix, GroupBefore |-> r.GroupBefore,
         GroupAfter |-> r.GroupAfter, RecoveryHandler |-> NilFunc,
         Assets |-> NilFunc]]

\* router.Group on the heap arrs: the heap it leaves and the new router.
\* The two global slices are copied as slice headers (the backing arrays
\* stay shared), the elements of the two group slices are copied into new
\* arrays, and RecoveryHandler and Assets are left nil.
Group(arrs, r, prefix) ==
    LET before == CopySlice(arrs, r.GroupBefore)
        after == CopySlice(before.arrays, r.GroupAfter)
    IN  [arrays |-> after.arrays,
         router |->
            [Root |-> r.Root, Param |-> r.Param, BeforeHooks |-> r.BeforeHooks,
             AfterHooks |-> r.AfterHooks, NotFound |-> r.NotFound,
             Prefix |-> r.Prefix \o prefix, GroupBefore |-> before.slice,
             GroupAfter |-> after.slice, RecoveryHandler |-> NilFunc,
             Assets |-> NilFunc]]

(***************************************************************************)
(* Requests and their contexts.  A context is the chain of the key/value   *)
(* pairs context.WithValue added to the background context, and a request  *)
(* value is modelled by the context it carries.                            *)
(***************************************************************************)
ParamsKey == "params"

Background == << >>

\* The request the transport hands to ServeHTTP.
Request == [ctx |-> Background]

\* context.WithValue(ctx, ParamsKey, params)
contextWithParams(ctx, params) == Append(ctx, [key |-> ParamsKey, val |-> params])

\* req.WithContext(ctx): a copy of req with the context replaced; req itself
\* is left as it was.
WithContext(req, ctx) == [req EXCEPT !.ctx = ctx]

\* GetParams(req): the value the innermost pair with key ParamsKey holds,
\* and the nil map when the context has none.
GetParams(req) ==
    LET with == { i \in 1..Len(req.ctx) : req.ctx[i].key = ParamsKey }
    IN  IF with = {} THEN [isNil |-> TRUE, map |-> EmptyMap]
        ELSE [isNil |-> FALSE,
              map |-> req.ctx[CHOOSE i \in with : \A j \in with : j <= i].val]

(***************************************************************************)
(* ServeHTTP.  A run is [log, status, err, params, req, ctxReq]: log is    *)
(* the sequence of calls made so far, each [site, f, r, i, arg] (the place *)
(* of the call in the source, the callback, the router whose field held    *)
(* it, its index in the list and the argument besides ctx); status is      *)
(* "run", "return" once the function has returned, "panic" while a panic   *)
(* unwinds, with err the panic value; params is the map that ctx.Params    *)
(* points to, req the value of the variable req and ctxReq the request     *)
(* that ctx.Req points to.                                                 *)
(***************************************************************************)
Call(site, f, r, i, arg) == [site |-> site, f |-> f, r |-> r, i |-> i, arg |-> arg]

NoArg == << >>

NewRun ==
    [log |-> << >>, status |-> "run", err |-> "", params |-> EmptyMap,
     req |-> Request, ctxReq |-> Request]

\* (RunBeforeHooksIgnoringResult: the loop without its `return`.)
RECURSIVE RunBeforeHooksIgnoringResult(_, _, _, _, _)
RunBeforeHooksIgnoringResult(hooks, site, r, i, run) ==
    IF run.status # "run" \/ i > Len(hooks) THEN run
    ELSE LET called == [run EXCEPT !.log = Append(@, Call(site, hooks[i], r, i, NoArg))]
         IN  IF Outcome(hooks[i]) = "panic"
             THEN [called EXCEPT !.status = "panic", !.err = hooks[i]]
             ELSE RunBeforeHooksIgnoringResult(hooks, site, r, i + 1, called)

\* `for _, hook := range hooks { if !hook(ctx) { return } }`, from index i.
RECURSIVE RunBeforeHooks(_, _, _, _, _)
RunBeforeHooks(hooks, site, r, i, run) ==
    IF run.status # "run" \/ i > Len(hooks) THEN run
    ELSE LET called == [run EXCEPT !.log = Append(@, Call(site, hooks[i], r, i, NoArg))]
         IN  CASE Outcome(hooks[i]) = "panic" ->
                     [called EXCEPT !.status = "panic", !.err = hooks[i]]
               [] Outcome(hooks[i]) = "false" ->
                     [called EXCEPT !.status = "return"]
               [] OTHER -> RunBeforeHooks(hooks, site, r, i + 1, called)

\* `for _, hook := range hooks { hook(ctx) }`, from index i.
RECURSIVE RunAfterHooks(_, _, _, _, _)
RunAfterHooks(hooks, site, r, i, run) ==
    IF run.status # "run" \/ i > Len(hooks) THEN run
    ELSE LET called == [run EXCEPT !.log = Append(@, Call(site, hooks[i], r, i, NoArg))]
         IN  IF Outcome(hooks[i]) = "panic"
             THEN [called EXCEPT !.status = "panic", !.err = hooks[i]]
             ELSE RunAfterHooks(hooks, site, r, i + 1, called)

\* A call of a func value that returns nothing: a nil func panics with the
\* runtime's nil-dereference error, a function runs and returns or panics.
CallFunc(site, fn, r, run) ==
    IF run.status # "run" THEN run
    ELSE IF fn.kind = "nil"
    THEN [run EXCEPT !.status = "panic", !.err = "nil pointer dereference"]
    ELSE LET called == [run EXCEPT !.log = Append(@, Call(site, fn.name, r, 0, NoArg))]
         IN  IF Outcome(fn.name) = "panic"
             THEN [called EXCEPT !.status = "panic", !.err = fn.name]
             ELSE called

\* The closure registerRoute hands to AddRoute, called with ctx: it reads
\* the GroupBefore and GroupAfter fields of the router g it captured when
\* it is called.  A before-hook returning false returns from the closure.
CallClosure(rs, arrs, g, name, run) ==
    LET before == RunBeforeHooks(Elems(arrs, rs[g].GroupBefore),
                                 "closure.GroupBefore", g, 1, run)
        handled == CallFunc("closure.handler", Func(name), g, before)
        after == RunAfterHooks(Elems(arrs, rs[g].GroupAfter),
                               "closure.GroupAfter", g, 1, handled)
    IN  IF after.status = "return" THEN [after EXCEPT !.status = "run"] ELSE after

\* curr.Handler(ctx).
CallHandler(rs, arrs, fn, r, run) ==
    IF run.status # "run" THEN run
    ELSE IF fn.kind = "closure" THEN CallClosure(rs, arrs, fn.r, fn.name, run)
    ELSE CallFunc("Handler", fn, r, run)

\* The tests of ServeHTTP for taking a Static child and a Param child.
\* (StaticMatchesAnyMethod: the test without the comparison of the methods.)
StaticMatchesAnyMethod(child, method, part) == child.Pattern = part

StaticMatches(child, method, part) == child.Method = method /\ child.Pattern = part

\* (ParamMatchesAnyMethod: the test without the comparison of the methods.)
ParamMatchesAnyMethod(child, method) == TRUE

ParamMatches(child, method) == child.Method = method

\* (MatchChildLastWins: a scan that goes on after a child was found, so
\* that the last compatible child is taken.)
RECURSIVE MatchChildLastWins(_, _, _, _, _, _)
MatchChildLastWins(ns, children, j, method, part, params) ==
    IF j > Len(children)
    THEN [found |-> FALSE, panic |-> FALSE, curr |-> 0, params |-> params]
    ELSE LET c == children[j]
             child == ns[c]
             next == MatchChildLastWins(ns, children, j + 1, method, part, params)
             patternParts == SplitN2(child.Pattern, ":")
         IN  IF next.found \/ next.panic THEN next
             ELSE IF child.Method # method THEN next
             ELSE IF child.NodeType = Static
             THEN IF child.Pattern = part
                  THEN [found |-> TRUE, panic |-> FALSE, curr |-> c,
                        params |-> params]
                  ELSE next
             ELSE IF child.NodeType = Param
             THEN [found |-> TRUE, panic |-> FALSE, curr |-> c,
                   params |-> MapPut(params, child.Pattern, part)]
             ELSE IF CompileFails(patternParts[2])
             THEN [found |-> FALSE, panic |-> TRUE, curr |-> 0, params |-> params]
             ELSE IF FindString(patternParts[2], part) = part
             THEN [found |-> TRUE, panic |-> FALSE, curr |-> c,
                   params |-> MapPut(params, patternParts[1], part)]
             ELSE next

\* The scan of curr.Children for one part of the request path, from
\* position j: [found, panic, curr, params].
RECURSIVE MatchChild(_, _, _, _, _, _)
MatchChild(ns, children, j, method, part, params) ==
    IF j > Len(children)
    THEN [found |-> FALSE, panic |-> FALSE, curr |-> 0, params |-> params]
    ELSE LET c == children[j]
             child == ns[c]
             next == MatchChild(ns, children, j + 1, method, part, params)
         IN  CASE child.NodeType = Static ->
                     IF StaticMatches(child, method, part)
                     THEN [found |-> TRUE, panic |-> FALSE, curr |-> c,
                           params |-> params]
                     ELSE next
               [] child.NodeType = Param ->
                     IF ParamMatches(child, method)
                     THEN [found |-> TRUE, panic |-> FALSE, curr |-> c,
                           params |-> MapPut(params, child.Pattern, part)]
                     ELSE next
               [] OTHER ->
                     LET patternParts == SplitN2(child.Pattern, ":")
                     IN  IF child.Method = method /\ Len(patternParts) = 2
                         THEN IF CompileFails(patternParts[2])
                              THEN [found |-> FALSE, panic |-> TRUE, curr |-> 0,
                                    params |-> params]
                              ELSE IF FindString(patternParts[2], part) = part
                              THEN [found |-> TRUE, panic |-> FALSE, curr |-> c,
                                    params |-> MapPut(params, patternParts[1], part)]
                              ELSE next
                         ELSE next

\* The loop of ServeHTTP over the parts of the request path:
\* [found, panic, curr, params].
RECURSIVE Walk(_, _, _, _, _)
Walk(ns, curr, parts, method, params) ==
    IF parts = << >>
    THEN [found |-> TRUE, panic |-> FALSE, curr |-> curr, params |-> params]
    ELSE LET m == MatchChild(ns, ns[curr].Children, 1, method, Head(parts), params)
         IN  IF m.found THEN Walk(ns, m.curr, Tail(parts), method, m.params)
             ELSE m

\* defaultAssetsHandler: false when the file system (files: the paths under
\* the working directory that name a file that can be served) has the file.
defaultAssetsHandler(urlPath, files) == ~(Trim(urlPath, "/") \in files)

\* r.Assets(ctx): the run after the call and what the handler returned.
CallAssets(fn, r, urlPath, files, run) ==
    IF fn.kind = "nil"
    THEN [run |-> [run EXCEPT !.status = "panic", !.err = "nil pointer dereference"],
          result |-> FALSE]
    ELSE LET called == [run EXCEPT !.log = Append(@, Call("Assets", fn.name, r, 0, urlPath))]
         IN  IF fn.name = "defaultAssetsHandler"
             THEN [run |-> called, result |-> defaultAssetsHandler(urlPath, files)]
             ELSE IF Outcome(fn.name) = "panic"
             THEN [run |-> [called EXCEPT !.status = "panic", !.err = fn.name],
                   result |-> FALSE]
             ELSE [run |-> called, result |-> Outcome(fn.name) = "true"]

\* (HandlerOrNothing: the branch without its else.)
HandlerOrNothing(ns, rs, arrs, r, curr, run) ==
    IF ns[curr].Handler # NilFunc
    THEN CallHandler(rs, arrs, ns[curr].Handler, r, run)
    ELSE run

\* `if curr.Handler != nil { curr.Handler(ctx) } else { r.NotFound(ctx) }`
HandlerOrNotFound(ns, rs, arrs, r, curr, run) ==
    IF ns[curr].Handler # NilFunc
    THEN CallHandler(rs, arrs, ns[curr].Handler, r, run)
    ELSE CallFunc("NotFound", rs[r].NotFound, r, run)

\* The body of ServeHTTP after the two loops over the before-hooks: the
\* walk, then the asset and not-found fallback or the handler and the
\* after-hooks.  The result is [run, Param]: Param is r.Param afterwards.
Dispatch(ns, rs, arrs, r, method, urlPath, files, run) ==
    LET parts == splitPath(ToLower(urlPath))
        w == Walk(ns, rs[r].Root, parts, method, run.params)
        walked == [run EXCEPT !.params = w.params]
    IN  IF w.panic
        THEN [run |-> [walked EXCEPT !.status = "panic", !.err = "regexp: Compile"],
              Param |-> rs[r].Param]
        ELSE IF ~w.found
        THEN LET a == CallAssets(rs[r].Assets, r, urlPath, files, walked)
             IN  IF a.run.status = "panic" \/ ~a.result
                 THEN [run |-> a.run, Param |-> rs[r].Param]
                 ELSE [run |-> CallFunc("NotFound", rs[r].NotFound, r, a.run),
                       Param |-> rs[r].Param]
        ELSE LET withParams ==
                     [walked EXCEPT !.req =
                         WithContext(@, contextWithParams(@.ctx, w.params))]
                 handled == HandlerOrNotFound(ns, rs, arrs, r, w.curr,
                                             withParams)
                 after == RunAfterHooks(Elems(arrs, rs[r].AfterHooks),
                                        "AfterHooks", r, 1, handled)
             IN  [run |-> RunAfterHooks(Elems(arrs, rs[r].GroupAfter),
                                        "GroupAfter", r, 1, after),
                  Param |-> w.params]

\* (RecoverNothing: a deferred function that does not call recover.
\* RecoverTwice: one that writes the fixed response after the custom
\* handler's as well.)
RecoverNothing(rs, r, run) ==
    IF run.status # "panic" THEN [run EXCEPT !.status = "return"] ELSE run

RecoverTwice(rs, r, run) ==
    IF run.status # "panic" THEN [run EXCEPT !.status = "return"]
    ELSE LET f == rs[r].RecoveryHandler.name
             called ==
                 IF rs[r].RecoveryHandler = NilFunc THEN run
                 ELSE [run EXCEPT !.log = Append(@, Call("RecoveryHandler", f, r, 0, run.err))]
         IN  [called EXCEPT !.status = "return",
                            !.log = Append(@, Call("http.Error", "500", r, 0, NoArg))]

\* The deferred function of ServeHTTP: recover() and the response to a
\* panic.  A panic of the recovery handler itself is not recovered.
Recover(rs, r, run) ==
    IF run.status # "panic" THEN [run EXCEPT !.status = "return"]
    ELSE IF rs[r].RecoveryHandler = NilFunc
    THEN [run EXCEPT !.status = "return",
                     !.log = Append(@, Call("http.Error", "500", r, 0, NoArg))]
    ELSE LET f == rs[r].RecoveryHandler.name
             called == [run EXCEPT !.log = Append(@, Call("RecoveryHandler", f, r, 0, run.err))]
         IN  IF Outcome(f) = "panic"
             THEN [called EXCEPT !.status = "panic", !.err = f]
             ELSE [called EXCEPT !.status = "return"]

\* router.ServeHTTP on router r: [run, Param].
ServeHTTP(ns, rs, arrs, r, method, urlPath, files) ==
    LET global == RunBeforeHooks(Elems(arrs, rs[r].BeforeHooks), "BeforeHooks",
                                 r, 1, NewRun)
        group == RunBeforeHooks(Elems(arrs, rs[r].GroupBefore), "GroupBefore",
                                r, 1, global)
        d == IF group.status = "run"
             THEN Dispatch(ns, rs, arrs, r, method, urlPath, files, group)
             ELSE [run |-> group, Param |-> rs[r].Param]
    IN  [run |-> Recover(rs, r, d.run), Param |-> d.Param]

(***************************************************************************)
(* The state.                                                              *)
(*   nodes    the TrieNode objects; nodes[1] is the root                   *)
(*   routers  the router objects; routers[1] is NewRouter()                *)
(*   arrays   the backing arrays of the four slices of hooks of a router   *)
(*   routes   history: the registrations that succeeded                    *)
(*   calls    history: how many registration calls of each kind, and how   *)
(*            many calls of ServeHTTP one after the other, were made       *)
(*   last     history: the most recent AddRoute, registerRoute or          *)
(*            ServeHTTP call and what it did, when no other call followed; *)
(*            for ServeHTTP with the calls it made, the map ctx.Params     *)
(*            points to, and the requests req and ctx.Req at the end       *)
(*   reqs     the calls of ServeHTTP that run concurrently, each with the  *)
(*            place it has come to and what its callbacks have read        *)
(***************************************************************************)
VARIABLES nodes, routers, arrays, routes, calls, last, reqs

vars == << nodes, routers, arrays, routes, calls, last, reqs >>

NoCall ==
    [op |-> "NewRouter", r |-> 1, method |-> "", path |-> EmptyString,
     f |-> "", panic |-> FALSE, log |-> << >>, params |-> EmptyMap,
     files |-> {}, req |-> Request, ctxReq |-> Request]

Init ==
    /\ nodes = << RootNode >>
    /\ routers = << NewRouter >>
    /\ arrays = << >>
    /\ routes = {}
    /\ calls = [routes |-> 0, hooks |-> 0, setters |-> 0, serves |-> 0]
    /\ last = NoCall
    /\ reqs = << >>

\* Registration is finished before traffic is accepted.
Registering == last.op # "ServeHTTP"

Routers == 1..Len(routers)

\* g := r.Group(prefix)
GroupCall(r, prefix) ==
    /\ Registering
    /\ Len(routers) <= MaxGroups
    /\ LET g == Group(arrays, routers[r], prefix)
       IN  /\ arrays' = g.arrays
           /\ routers' = Append(routers, g.router)
    /\ last' = NoCall
    /\ UNCHANGED << nodes, routes, calls, reqs >>

\* r.RegisterBeforeHook(f)
RegisterBeforeHook(r, f) ==
    /\ Registering
    /\ calls.hooks < MaxHooks
    /\ LET a == AppendSlice(arrays, routers[r].BeforeHooks, f)
       IN  /\ arrays' = a.arrays
           /\ routers' = [routers EXCEPT ![r].BeforeHooks = a.slice]
    /\ calls' = [calls EXCEPT !.hooks = @ + 1]
    /\ last' = NoCall
    /\ UNCHANGED << nodes, routes, reqs >>

\* r.RegisterAfterHook(f)
RegisterAfterHook(r, f) ==
    /\ Registering
    /\ calls.hooks < MaxHooks
    /\ LET a == AppendSlice(arrays, routers[r].AfterHooks, f)
       IN  /\ arrays' = a.arrays
           /\ routers' = [routers EXCEPT ![r].AfterHooks = a.slice]
    /\ calls' = [calls EXCEPT !.hooks = @ + 1]
    /\ last' = NoCall
    /\ UNCHANGED << nodes, routes, reqs >>

\* r.RegisterGroupBeforeHook(f)
RegisterGroupBeforeHook(r, f) ==
    /\ Registering
    /\ calls.hooks < MaxGroupHooks
    /\ LET a == AppendSlice(arrays, routers[r].GroupBefore, f)
       IN  /\ arrays' = a.arrays
           /\ routers' = [routers EXCEPT ![r].GroupBefore = a.slice]
    /\ calls' = [calls EXCEPT !.hooks = @ + 1]
    /\ last' = NoCall
    /\ UNCHANGED << nodes, routes, reqs >>

\* r.RegisterGroupAfterHook(f)
RegisterGroupAfterHook(r, f) ==
    /\ Registering
    /\ calls.hooks < MaxGroupHooks
    /\ LET a == AppendSlice(arrays, routers[r].GroupAfter, f)
       IN  /\ arrays' = a.arrays
           /\ routers' = [routers EXCEPT ![r].GroupAfter = a.slice]
    /\ calls' = [calls EXCEPT !.hooks = @ + 1]
    /\ last' = NoCall
    /\ UNCHANGED << nodes, routes, reqs >>

\* r.SetRecoveryHandler(f)
SetRecoveryHandler(r, f) ==
    /\ Registering
    /\ calls.setters < MaxSetters
    /\ routers' = [routers EXCEPT ![r].RecoveryHandler = Func(f)]
    /\ calls' = [calls EXCEPT !.setters = @ + 1]
    /\ last' = NoCall
    /\ UNCHANGED << nodes, arrays, routes, reqs >>

\* r.SetNotFoundHandler(f)
SetNotFoundHandler(r, f) ==
    /\ Registering
    /\ calls.setters < MaxSetters
    /\ routers' = [routers EXCEPT ![r].NotFound = Func(f)]
    /\ calls' = [calls EXCEPT !.setters = @ + 1]
    /\ last' = NoCall
    /\ UNCHANGED << nodes, arrays, routes, reqs >>

\* r.SetAssetsHandler(f)
SetAssetsHandler(r, f) ==
    /\ Registering
    /\ calls.setters < MaxSetters
    /\ routers' = [routers EXCEPT ![r].Assets = Func(f)]
    /\ calls' = [calls EXCEPT !.setters = @ + 1]
    /\ last' = NoCall
    /\ UNCHANGED << nodes, arrays, routes, reqs >>

\* The registration a successful AddRoute leaves in the history: the path
\* the application gave (after the group's prefix), the path AddRoute got,
\* the node that got the handler, and the group hook lists of the registering router
\* as they stood at the time.
Registration(r, via, method, given, path, f, node) ==
    [r |-> r, via |-> via, method |-> method, given |-> given, path |-> path,
     f |-> f, node |-> node,
     GroupBefore |-> Elems(arrays, routers[r].GroupBefore),
     GroupAfter |-> Elems(arrays, routers[r].GroupAfter)]

\* The effect of r.AddRoute(method, path, handler) on the state; a panic
\* leaves what the walk had appended to the trie.
AddRouteStep(r, via, method, given, path, handler) ==
    LET a == AddRoute(nodes, method, path, handler)
    IN  /\ nodes' = a.nodes
        /\ routes' = IF a.panic THEN routes
                     ELSE routes \cup
                          {Registration(r, via, method, given, path, handler.name,
                                        a.curr)}
        /\ calls' = [calls EXCEPT !.routes = @ + 1]
        /\ last' = [NoCall EXCEPT !.op = via, !.r = r, !.method = method,
                                  !.path = path, !.f = handler.name,
                                  !.panic = a.panic]
        /\ UNCHANGED << routers, arrays, reqs >>

\* r.AddRoute(method, path, f), called by the application.
AddRouteCall(r, method, path, f) ==
    /\ Registering
    /\ calls.routes < MaxRoutes
    /\ AddRouteStep(r, "AddRoute", method, path, path, Func(f))

\* r.registerRoute(method, path, f): what r.GET, r.POST, ... call.
registerRoute(r, method, path, f) ==
    /\ Registering
    /\ calls.routes < MaxRoutes
    /\ AddRouteStep(r, "registerRoute", method, routers[r].Prefix \o path,
                    ToLower(routers[r].Prefix \o path), Closure(r, f))

\* (ServeHTTPCallWritingEveryView: a ServeHTTP whose write of Param is seen
\* through every view of the router.)
ServeHTTPCallWritingEveryView(r, method, urlPath, files) ==
    LET s == ServeHTTP(nodes, routers, arrays, r, method, urlPath, files)
    IN  /\ calls.serves < MaxServes
        /\ routers' = [o \in DOMAIN routers |->
                           [routers[o] EXCEPT !.Param = s.Param]]
        /\ last' = [op |-> "ServeHTTP", r |-> r, method |-> method,
                    path |-> urlPath, f |-> "", panic |-> s.run.status = "panic",
                    log |-> s.run.log, params |-> s.run.params, files |-> files,
                    req |-> s.run.req, ctxReq |-> s.run.ctxReq]
        /\ calls' = [calls EXCEPT !.serves = @ + 1]
        /\ UNCHANGED << nodes, arrays, routes, reqs >>

\* r.ServeHTTP(w, req) for a request of this method and URL path, with
\* `files` the servable files of the working directory.
ServeHTTPCall(r, method, urlPath, files) ==
    LET s == ServeHTTP(nodes, routers, arrays, r, method, urlPath, files)
    IN  /\ calls.serves < MaxServes
        /\ routers' = [routers EXCEPT ![r].Param = s.Param]
        /\ last' = [op |-> "ServeHTTP", r |-> r, method |-> method,
                    path |-> urlPath, f |-> "", panic |-> s.run.status = "panic",
                    log |-> s.run.log, params |-> s.run.params, files |-> files,
                    req |-> s.run.req, ctxReq |-> s.run.ctxReq]
        /\ calls' = [calls EXCEPT !.serves = @ + 1]
        /\ UNCHANGED << nodes, arrays, routes, reqs >>

(***************************************************************************)
(* ServeHTTP called concurrently.  The transport calls ServeHTTP once per  *)
(* request, each call on a goroutine of its own, and the router holds no   *)
(* lock.  A call in flight is                                              *)
(*     [r, method, path, files, pc, i, curr, run, wrote, seen]             *)
(* pc is the place it has come to: a loop over hooks ("BeforeHooks",       *)
(* "GroupBefore", "closure.GroupBefore", "closure.GroupAfter",             *)
(* "AfterHooks", "GroupAfter") with i the index of the hook to call next,  *)
(* "walk", "Assets", "NotFound", "Handler", "closure.handler", "recover"   *)
(* or "done"; run is its run so far, files what the asset handler found in *)
(* the file system, wrote whether it has assigned r.Param, and seen what   *)
(* each callback it called would read at the time of the call: ctx the map *)
(* ctx.Params points to, router the map r.Param points to.                 *)
(*                                                                         *)
(* A step of a call is one call of a callback (a hook, the asset handler,  *)
(* the not-found handler, the route's handler, the recovery handler), or   *)
(* the walk with the assignment of r.Param at its end: the walk reads the  *)
(* trie and writes the call's own map only.  What lies between two steps   *)
(* is local to the call.  r.Param is read and written without              *)
(* synchronisation: a read gets the map of whichever assignment came last. *)
(***************************************************************************)
\* (CtxParamsOfRouter: a ctx.Params that points to the map of the router.)
CtxParamsOfRouter(q, rs) == rs[q.r].Param

\* ctx.Params of call q: the map made for the call.
CtxParams(q, rs) == q.run.params

\* (ParamUnwritten: no assignment.)
ParamUnwritten(rs, r, params) == rs

\* r.Param = params
ParamWritten(rs, r, params) == [rs EXCEPT ![r].Param = params]

\* Call q after a step that took its run to `run`: the callbacks called in
\* the step have read ctx.Params and r.Param.  The recovery handler is
\* called with a context of its own, &HttpContext{W: w, Req: req}, whose
\* Params is the nil map.
Observed(q, rs, run) ==
    LET to == [q EXCEPT !.run = run]
    IN  [to EXCEPT !.seen = @ \o
            [k \in 1..(Len(run.log) - Len(q.run.log)) |->
                [site |-> run.log[Len(q.run.log) + k].site,
                 f |-> run.log[Len(q.run.log) + k].f,
                 ctx |-> IF run.log[Len(q.run.log) + k].site = "RecoveryHandler"
                         THEN EmptyMap
                         ELSE CtxParams(to, rs),
                 router |-> rs[q.r].Param]]]

\* The loops over hooks, those whose hooks can stop the request, and those
\* of the closure registerRoute made.
HookLoops ==
    {"BeforeHooks", "GroupBefore", "closure.GroupBefore", "closure.GroupAfter",
     "AfterHooks", "GroupAfter"}

BeforeLoops == {"BeforeHooks", "GroupBefore", "closure.GroupBefore"}

ClosureLoops == {"closure.GroupBefore", "closure.GroupAfter"}

\* The router whose fields the code at q.pc reads: the router the closure
\* captured inside the closure, the receiver elsewhere.
RouterAt(q, ns) == IF q.pc \in ClosureLoops THEN ns[q.curr].Handler.r ELSE q.r

\* The hooks the loop at q.pc ranges over.
HooksAt(q, ns, rs, arrs) ==
    CASE q.pc = "BeforeHooks" -> Elems(arrs, rs[q.r].BeforeHooks)
      [] q.pc = "GroupBefore" -> Elems(arrs, rs[q.r].GroupBefore)
      [] q.pc = "closure.GroupBefore" ->
             Elems(arrs, rs[RouterAt(q, ns)].GroupBefore)
      [] q.pc = "closure.GroupAfter" ->
             Elems(arrs, rs[RouterAt(q, ns)].GroupAfter)
      [] q.pc = "AfterHooks" -> Elems(arrs, rs[q.r].AfterHooks)
      [] q.pc = "GroupAfter" -> Elems(arrs, rs[q.r].GroupAfter)
      [] OTHER -> << >>

\* What follows the loop at pc.
AfterLoop(pc) ==
    CASE pc = "BeforeHooks" -> "GroupBefore"
      [] pc = "GroupBefore" -> "walk"
      [] pc = "closure.GroupBefore" -> "closure.handler"
      [] pc = "closure.GroupAfter" -> "AfterHooks"
      [] pc = "AfterHooks" -> "GroupAfter"
      [] OTHER -> "return"

\* Call q returns from ServeHTTP without a panic: the deferred function
\* finds nothing to recover.
Returned(q, rs) == [q EXCEPT !.run = Recover(rs, q.r, @), !.pc = "done"]

\* Call q goes on, without a call of a callback, to the place of its next
\* step: past the loops that have no hook left, into the closure when the
\* handler of the node is one, and out of ServeHTTP after the last loop.
RECURSIVE Advance(_, _, _, _)
Advance(q, ns, rs, arrs) ==
    IF q.pc \in HookLoops /\ q.i > Len(HooksAt(q, ns, rs, arrs))
    THEN IF AfterLoop(q.pc) = "return" THEN Returned(q, rs)
         ELSE Advance([q EXCEPT !.pc = AfterLoop(q.pc), !.i = 1], ns, rs, arrs)
    ELSE IF q.pc = "Handler" /\ ns[q.curr].Handler.kind = "closure"
    THEN Advance([q EXCEPT !.pc = "closure.GroupBefore", !.i = 1], ns, rs, arrs)
    ELSE q

\* Call q after a step that took its run to `run` and the call to `pc`: a
\* panic goes to the deferred function.
Stepped(q, ns, rs, arrs, run, pc) ==
    LET to == Observed(q, rs, run)
    IN  IF run.status = "panic" THEN [to EXCEPT !.pc = "recover"]
        ELSE IF run.status = "return" THEN Returned(to, rs)
        ELSE Advance([to EXCEPT !.pc = pc, !.i = 1], ns, rs, arrs)

\* The call enters ServeHTTP: the deferred function, the path, the map of
\* the parameters and the context.
ServeHTTPBegin(r, method, urlPath) ==
    /\ Len(reqs) < MaxRequests
    /\ reqs' = Append(reqs,
                      Advance([r |-> r, method |-> method, path |-> urlPath,
                               files |-> {}, pc |-> "BeforeHooks", i |-> 1,
                               curr |-> routers[r].Root, run |-> NewRun,
                               wrote |-> FALSE, seen |-> << >>],
                              nodes, routers, arrays))
    /\ last' = [NoCall EXCEPT !.op = "ServeHTTP"]
    /\ UNCHANGED << nodes, routers, arrays, routes, calls >>

\* One call of a hook, in any of the loops over hooks.  A before-hook of
\* ServeHTTP that returns false returns from ServeHTTP, one of the closure
\* from the closure.
ServeHTTPHook(p) ==
    /\ reqs[p].pc \in HookLoops
    /\ LET q == reqs[p]
           hooks == SubSeq(HooksAt(q, nodes, routers, arrays), 1, q.i)
           run == IF q.pc \in BeforeLoops
                  THEN RunBeforeHooks(hooks, q.pc, RouterAt(q, nodes), q.i, q.run)
                  ELSE RunAfterHooks(hooks, q.pc, RouterAt(q, nodes), q.i, q.run)
           to == Observed(q, routers, run)
       IN  reqs' = [reqs EXCEPT ![p] =
                       CASE run.status = "panic" -> [to EXCEPT !.pc = "recover"]
                         [] run.status = "return" /\ q.pc = "closure.GroupBefore" ->
                               Advance([to EXCEPT !.run.status = "run",
                                                  !.pc = "AfterHooks", !.i = 1],
                                       nodes, routers, arrays)
                         [] run.status = "return" -> Returned(to, routers)
                         [] OTHER ->
                               Advance([to EXCEPT !.i = @ + 1],
                                       nodes, routers, arrays)]
    /\ UNCHANGED << nodes, routers, arrays, routes, calls, last >>

\* The loop over the parts of the path, and then, when it found a node for
\* every part, r.Param = params and the request with the new context.
ServeHTTPWalk(p) ==
    /\ reqs[p].pc = "walk"
    /\ LET q == reqs[p]
           w == Walk(nodes, q.curr, splitPath(ToLower(q.path)), q.method,
                     q.run.params)
           walked == [q.run EXCEPT !.params = w.params]
       IN  IF w.panic
           THEN /\ reqs' = [reqs EXCEPT ![p] =
                               [q EXCEPT !.run = [walked EXCEPT
                                                     !.status = "panic",
                                                     !.err = "regexp: Compile"],
                                         !.pc = "recover"]]
                /\ UNCHANGED routers
           ELSE IF ~w.found
           THEN /\ reqs' = [reqs EXCEPT ![p] =
                               [q EXCEPT !.run = walked, !.pc = "Assets"]]
                /\ UNCHANGED routers
           ELSE /\ routers' = ParamWritten(routers, q.r, w.params)
                /\ reqs' = [reqs EXCEPT ![p] =
                               Advance([q EXCEPT
                                           !.run = [walked EXCEPT !.req =
                                               WithContext(@, contextWithParams(
                                                                  @.ctx, w.params))],
                                           !.curr = w.curr, !.pc = "Handler",
                                           !.wrote = TRUE],
                                       nodes, routers, arrays)]
    /\ UNCHANGED << nodes, arrays, routes, calls, last >>

\* `if !r.Assets(ctx) { return }` after a walk that failed; files is what
\* the asset handler finds in the file system.
ServeHTTPAssets(p, files) ==
    /\ reqs[p].pc = "Assets"
    /\ LET q == [reqs[p] EXCEPT !.files = files]
           a == CallAssets(routers[q.r].Assets, q.r, q.path, files, q.run)
       IN  reqs' = [reqs EXCEPT ![p] =
                       Stepped(q, nodes, routers, arrays,
                               IF a.run.status = "run" /\ ~a.result
                               THEN [a.run EXCEPT !.status = "return"]
                               ELSE a.run,
                               "NotFound")]
    /\ UNCHANGED << nodes, routers, arrays, routes, calls, last >>

\* `r.NotFound(ctx); return` after the asset handler returned true.
ServeHTTPNotFound(p) ==
    /\ reqs[p].pc = "NotFound"
    /\ LET q == reqs[p]
           called == CallFunc("NotFound", routers[q.r].NotFound, q.r, q.run)
       IN  reqs' = [reqs EXCEPT ![p] =
                       Stepped(q, nodes, routers, arrays,
                               IF called.status = "run"
                               THEN [called EXCEPT !.status = "return"]
                               ELSE called,
                               "done")]
    /\ UNCHANGED << nodes, routers, arrays, routes, calls, last >>

\* curr.Handler(ctx) for a handler AddRoute was given, r.NotFound(ctx) for a
\* node without one, and inside the closure of registerRoute the handler
\* the closure captured.
ServeHTTPHandler(p) ==
    /\ reqs[p].pc \in {"Handler", "closure.handler"}
    /\ LET q == reqs[p]
           fn == nodes[q.curr].Handler
       IN  reqs' = [reqs EXCEPT ![p] =
                       IF q.pc = "closure.handler"
                       THEN Stepped(q, nodes, routers, arrays,
                                    CallFunc("closure.handler", Func(fn.name),
                                             fn.r, q.run),
                                    "closure.GroupAfter")
                       ELSE Stepped(q, nodes, routers, arrays,
                                    HandlerOrNotFound(nodes, routers, arrays,
                                                      q.r, q.curr, q.run),
                                    "AfterHooks")]
    /\ UNCHANGED << nodes, routers, arrays, routes, calls, last >>

\* The deferred function after a panic: the recovery handler, or the fixed
\* response.
ServeHTTPRecover(p) ==
    /\ reqs[p].pc = "recover"
    /\ LET q == reqs[p]
       IN  reqs' = [reqs EXCEPT ![p] =
                       [Observed(q, routers, Recover(routers, q.r, q.run))
                           EXCEPT !.pc = "done"]]
    /\ UNCHANGED << nodes, routers, arrays, routes, calls, last >>

(***************************************************************************)
(* The inputs of the model.                                                *)
(***************************************************************************)
Methods == {"GET", "POST"}

\* The k-th registration call passes the k-th handler, so that a handler
\* names its registration.
HandlerNames == << "h1", "h2", "h3", "h4" >>

NextHandler == HandlerNames[calls.routes + 1]

GroupPrefixes == { << "/", "g" >> }

\* "/a", "/a/b", "/:x", "/{x:[0-9]+}", "/A", "/"
RoutePaths ==
    { << "/", "a" >>,
      << "/", "a", "/", "b" >>,
      << "/", ":", "x" >>,
      << "/", "{", "x", ":", "[0-9]", "+", "}" >>,
      << "/", "A" >>,
      << "/" >> }

\* The paths the application passes to AddRoute itself:
\* "/a", "/A", "/{x:[0-9]+}", "/{x:[0-9]+}/a", "/{x:a}/b", "/{y:x:a}"
AddRoutePaths ==
    { << "/", "a" >>,
      << "/", "A" >>,
      << "/", "{", "x", ":", "[0-9]", "+", "}" >>,
      << "/", "{", "x", ":", "[0-9]", "+", "}", "/", "a" >>,
      << "/", "{", "x", ":", "a", "}", "/", "b" >>,
      << "/", "{", "y", ":", "x", ":", "a", "}" >> }

\* "/a", "/A", "/a/b", "/1", "/", "/b", "/a/"
RequestPaths ==
    { << "/", "a" >>,
      << "/", "A" >>,
      << "/", "a", "/", "b" >>,
      << "/", "1" >>,
      << "/" >>,
      << "/", "b" >>,
      << "/", "a", "/" >> }

\* The file system either has nothing to serve or has the requested file.
FileSystems(urlPath) == { {}, {Trim(urlPath, "/")} }

(***************************************************************************)
(* Spec: routes of every kind registered on the router NewRouter() made,   *)
(* through the method helpers and through AddRoute, and then requests.     *)
(***************************************************************************)
AddRoute1 ==
    \E method \in Methods, path \in AddRoutePaths :
        AddRouteCall(1, method, path, NextHandler)

Register1 ==
    \E method \in Methods, path \in RoutePaths :
        registerRoute(1, method, path, NextHandler)

Serve1 ==
    \E method \in Methods, urlPath \in RequestPaths :
        \E files \in FileSystems(urlPath) :
            ServeHTTPCall(1, method, urlPath, files)

Next == AddRoute1 \/ Register1 \/ Serve1

Spec == Init /\ [][Next]_vars

(***************************************************************************)
(* SpecHooks: one route path, registered through the router or through a   *)
(* group of it, with hooks of the four kinds on either, and a recovery     *)
(* handler; then requests through either router.                           *)
(***************************************************************************)
BeforeHookFuncs == {"b1", "bAbort", "bPanic"}
AfterHookFuncs == {"a1", "aPanic"}
GroupBeforeHookFuncs == {"g1", "gAbort"}
GroupAfterHookFuncs == {"ga1"}
HandlerFuncs == {"h1", "hPanic"}
RecoveryFuncs == {"rec", "recPanic"}

\* "/x"
HookRoutePaths == { << "/", "x" >> }

\* "/x", "/g/x", "/g", "/y"
HookRequestPaths ==
    { << "/", "x" >>,
      << "/", "g", "/", "x" >>,
      << "/", "g" >>,
      << "/", "y" >> }

Group2 ==
    \E r \in Routers, prefix \in GroupPrefixes :
        Len(routers) <= MaxHookGroups /\ GroupCall(r, prefix)

Before2 == \E r \in Routers, f \in BeforeHookFuncs : RegisterBeforeHook(r, f)

After2 == \E r \in Routers, f \in AfterHookFuncs : RegisterAfterHook(r, f)

GroupBefore2 ==
    \E r \in Routers, f \in GroupBeforeHookFuncs :
        calls.hooks < MaxHooks /\ RegisterGroupBeforeHook(r, f)

GroupAfter2 ==
    \E r \in Routers, f \in GroupAfterHookFuncs :
        calls.hooks < MaxHooks /\ RegisterGroupAfterHook(r, f)

Recovery2 == \E f \in RecoveryFuncs : SetRecoveryHandler(1, f)

Register2 ==
    \E r \in Routers, path \in HookRoutePaths, f \in HandlerFuncs :
        calls.routes < MaxHookRoutes /\ registerRoute(r, "GET", path, f)

Serve2 ==
    \E r \in Routers, urlPath \in HookRequestPaths :
        ServeHTTPCall(r, "GET", urlPath, {})

NextHooks ==
    \/ Group2 \/ Before2 \/ After2 \/ GroupBefore2 \/ GroupAfter2
    \/ Recovery2 \/ Register2 \/ Serve2

SpecHooks == Init /\ [][NextHooks]_vars

(***************************************************************************)
(* SpecGroups: groups of the router and of its groups, with routes         *)
(* registered through any of them; then requests through the router.       *)
(***************************************************************************)
\* "/x", "/g/x", "/{x:[0-9]+}", "/g/{x:[0-9]+}"
GroupRoutePaths ==
    { << "/", "x" >>,
      << "/", "g", "/", "x" >>,
      << "/", "{", "x", ":", "[0-9]", "+", "}" >>,
      << "/", "g", "/", "{", "x", ":", "[0-9]", "+", "}" >> }

\* "/x", "/g/x", "/g/g/x", "/g/1"
GroupRequestPaths ==
    { << "/", "x" >>,
      << "/", "g", "/", "x" >>,
      << "/", "g", "/", "g", "/", "x" >>,
      << "/", "g", "/", "1" >> }

Group3 == \E r \in Routers, prefix \in GroupPrefixes : GroupCall(r, prefix)

Register3 ==
    \E r \in Routers, path \in GroupRoutePaths :
        registerRoute(r, "GET", path, NextHandler)

Serve3 == \E urlPath \in GroupRequestPaths : ServeHTTPCall(1, "GET", urlPath, {})

NextGroups == Group3 \/ Register3 \/ Serve3

SpecGroups == Init /\ [][NextGroups]_vars

(***************************************************************************)
(* SpecViews: groups of the router and of its groups, and group hooks      *)
(* registered on any of them, in any order.                                *)
(***************************************************************************)
GroupBefore4 ==
    \E r \in Routers, f \in GroupBeforeHookFuncs : RegisterGroupBeforeHook(r, f)

GroupAfter4 ==
    \E r \in Routers, f \in GroupAfterHookFuncs : RegisterGroupAfterHook(r, f)

NextViews == Group3 \/ GroupBefore4 \/ GroupAfter4

SpecViews == Init /\ [][NextViews]_vars

(***************************************************************************)
(* SpecMatch: routes with literal, parameter and regular-expression        *)
(* segments, one of them with a pattern that does not compile, registered  *)
(* on the router NewRouter() made; then requests.                          *)
(***************************************************************************)
\* "/a", "/a/b", "/a/:x", "/:x", "/:X", "/:x/b", "/{x:[0-9]+}", "/{x:(}",
\* "/a/{x:(}"
MatchRoutePaths ==
    { << "/", "a" >>,
      << "/", "a", "/", "b" >>,
      << "/", "a", "/", ":", "x" >>,
      << "/", ":", "x" >>,
      << "/", ":", "X" >>,
      << "/", ":", "x", "/", "b" >>,
      << "/", "{", "x", ":", "[0-9]", "+", "}" >>,
      << "/", "{", "x", ":", "(", "}" >>,
      << "/", "a", "/", "{", "x", ":", "(", "}" >> }

\* "/a", "/a/B", "/a/1", "/1", "/1/b", "/", "/b"
MatchRequestPaths ==
    { << "/", "a" >>,
      << "/", "a", "/", "B" >>,
      << "/", "a", "/", "1" >>,
      << "/", "1" >>,
      << "/", "1", "/", "b" >>,
      << "/" >>,
      << "/", "b" >> }

Register5 ==
    \E method \in Methods, path \in MatchRoutePaths :
        registerRoute(1, method, path, NextHandler)

Serve5 ==
    \E method \in Methods, urlPath \in MatchRequestPaths :
        \E files \in FileSystems(urlPath) :
            ServeHTTPCall(1, method, urlPath, files)

NextMatch == Register5 \/ Serve5

SpecMatch == Init /\ [][NextMatch]_vars

(***************************************************************************)
(* SpecServe: one route with a parameter segment, registered through the   *)
(* router or through a group of it, with hooks of the four kinds on        *)
(* either, and an asset or not-found handler of the application; then      *)
(* requests through either router, with or without the requested file in   *)
(* the working directory.                                                  *)
(***************************************************************************)
\* "/:x"
ServeRoutePaths == { << "/", ":", "x" >> }

\* "/1", "/g/1", "/y/z"
ServeRequestPaths ==
    { << "/", "1" >>,
      << "/", "g", "/", "1" >>,
      << "/", "y", "/", "z" >> }

Before6 == \E r \in Routers, f \in {"b1", "bAbort"} : RegisterBeforeHook(r, f)

After6 == \E r \in Routers, f \in {"a1"} : RegisterAfterHook(r, f)

GroupBefore6 ==
    \E r \in Routers, f \in {"g1"} :
        calls.hooks < MaxHooks /\ RegisterGroupBeforeHook(r, f)

GroupAfter6 ==
    \E r \in Routers, f \in {"ga1"} :
        calls.hooks < MaxHooks /\ RegisterGroupAfterHook(r, f)

Assets6 ==
    \E r \in Routers, f \in {"assetsHandled", "assetsPanic"} :
        SetAssetsHandler(r, f)

NotFound6 == \E r \in Routers, f \in {"nfPanic"} : SetNotFoundHandler(r, f)

Register6 ==
    \E r \in Routers, path \in ServeRoutePaths, f \in HandlerFuncs :
        calls.routes < MaxHookRoutes /\ registerRoute(r, "GET", path, f)

Serve6 ==
    \E r \in Routers, urlPath \in ServeRequestPaths :
        \E files \in FileSystems(urlPath) :
            ServeHTTPCall(r, "GET", urlPath, files)

NextServe ==
    \/ Group2 \/ Before6 \/ After6 \/ GroupBefore6 \/ GroupAfter6
    \/ Assets6 \/ NotFound6 \/ Register6 \/ Serve6

SpecServe == Init /\ [][NextServe]_vars

(***************************************************************************)
(* SpecConc: routes with a parameter segment, a global before-hook and a   *)
(* global after-hook, one that returns or one that panics, and a recovery  *)
(* handler, registered on the router NewRouter() made; then requests that  *)
(* the transport dispatches concurrently, each taking its steps            *)
(* interleaved with the other's.                                           *)
(***************************************************************************)
\* "/:x", "/a/:y"
ConcRoutePaths ==
    { << "/", ":", "x" >>,
      << "/", "a", "/", ":", "y" >> }

\* "/1", "/2", "/a/1"
ConcRequestPaths ==
    { << "/", "1" >>,
      << "/", "2" >>,
      << "/", "a", "/", "1" >> }

\* The routes and the hooks are registered before the router is handed to
\* the server: no registration runs while a request is served.
Register7 ==
    /\ reqs = << >>
    /\ \E path \in ConcRoutePaths : registerRoute(1, "GET", path, NextHandler)

Before7 ==
    /\ reqs = << >>
    /\ Elems(arrays, routers[1].BeforeHooks) = << >>
    /\ RegisterBeforeHook(1, "b1")

After7 ==
    /\ reqs = << >>
    /\ Elems(arrays, routers[1].AfterHooks) = << >>
    /\ \E f \in {"a1", "aPanic"} : RegisterAfterHook(1, f)

Recovery7 == reqs = << >> /\ SetRecoveryHandler(1, "rec")

Begin7 == \E urlPath \in ConcRequestPaths : ServeHTTPBegin(1, "GET", urlPath)

Hook7 == \E p \in DOMAIN reqs : ServeHTTPHook(p)

Walk7 == \E p \in DOMAIN reqs : ServeHTTPWalk(p)

Assets7 ==
    \E p \in DOMAIN reqs : \E files \in FileSystems(reqs[p].path) :
        ServeHTTPAssets(p, files)

NotFound7 == \E p \in DOMAIN reqs : ServeHTTPNotFound(p)

Handler7 == \E p \in DOMAIN reqs : ServeHTTPHandler(p)

Recover7 == \E p \in DOMAIN reqs : ServeHTTPRecover(p)

NextConc ==
    \/ Register7 \/ Before7 \/ After7 \/ Recovery7
    \/ Begin7 \/ Hook7 \/ Walk7 \/ Assets7 \/ NotFound7 \/ Handler7 \/ Recover7

SpecConc == Init /\ [][NextConc]_vars

(***************************************************************************)
(* What the properties read off the state.                                 *)
(***************************************************************************)
Served == last.op = "ServeHTTP"

\* The callbacks called at one of these places during the last request, in
\* the order of the calls.
CalledAt(sites) ==
    LET calls_ == SelectSeq(last.log, LAMBDA e : e.site \in sites)
    IN  [i \in 1..Len(calls_) |-> calls_[i].f]

\* The user handlers of routes called during the last request.
HandlerCalls == CalledAt({"Handler", "closure.handler"})

\* All the parts of the path are literal segments.
IsLiteral(path) ==
    \A i \in 1..Len(splitPath(path)) :
        getNodeTypeAndPattern(splitPath(path)[i]).nodeType = Static

\* Every registration call succeeded and no two gave the same method and
\* path.
NoRepeat ==
    /\ calls.routes = Cardinality(routes)
    /\ \A a, b \in routes : a.method = b.method /\ a.given = b.given => a = b

\* The parent of node n (n is not the root) and the nodes from the root's
\* child down to n.
Parent(n) ==
    CHOOSE p \in 1..Len(nodes) : \E j \in 1..Len(nodes[p].Children) :
        nodes[p].Children[j] = n

RECURSIVE Chain(_)
Chain(n) == IF n = 1 THEN {} ELSE {n} \cup Chain(Parent(n))

\* The children of n's parent that come before n in its Children list.
EarlierSiblings(n) ==
    LET ch == nodes[Parent(n)].Children
    IN  { ch[j] : j \in { k \in 1..Len(ch) : \E l \in (k + 1)..Len(ch) : ch[l] = n } }

\* No node on the way to n has an earlier sibling of its method that is a
\* Param or a Regex node.
Undiverted(n) ==
    \A m \in Chain(n) : \A s \in EarlierSiblings(m) :
        ~(nodes[s].Method = nodes[m].Method /\ nodes[s].NodeType \in {Param, Regex})

(***************************************************************************)
(* C1.  As stated: with no (method, path) registered twice, a request      *)
(* whose method and path are those of a registered literal route calls     *)
(* that route's handler exactly once and no other route's handler.         *)
(***************************************************************************)
C1_ExactRouteAlwaysWins ==
    (Served /\ NoRepeat) =>
        \A a \in routes :
            (IsLiteral(a.given) /\ last.method = a.method /\ last.path = a.given)
                => HandlerCalls = << a.f >>

\* C1, amended: the same, for a route whose path reached AddRoute in lower
\* case (every route registered through GET, POST, ...; a route given to
\* AddRoute in lower case) and whose nodes have no Param or Regex sibling of
\* the same method registered before them under the same parent.
C1_ExactRouteWinsWhenFirst ==
    (Served /\ NoRepeat) =>
        \A a \in routes :
            (/\ IsLiteral(a.given) /\ last.method = a.method
             /\ last.path = a.given
             /\ ToLower(a.given) = a.path
             /\ Undiverted(a.node))
                => HandlerCalls = << a.f >>

\* C1's case: two routes are registered, the second's node behind a sibling
\* of another method, and a request for the second has called its handler.
C1_Witness ==
    /\ Served /\ NoRepeat /\ Cardinality(routes) = 2
    /\ \E a \in routes :
        /\ IsLiteral(a.given) /\ last.method = a.method /\ last.path = a.given
        /\ ToLower(a.given) = a.path /\ Undiverted(a.node)
        /\ EarlierSiblings(a.node) # {}
        /\ HandlerCalls = << a.f >>

(***************************************************************************)
(* C2.  A registration call whose method and path (as AddRoute gets it)    *)
(* are those of an earlier successful registration panics and leaves the   *)
(* trie as it was, whatever the kinds of the path's segments.              *)
(***************************************************************************)
C2_DuplicateRegistrationPanics ==
    [][(/\ calls'.routes = calls.routes + 1
        /\ \E a \in routes : a.method = last'.method /\ a.path = last'.path)
           => (last'.panic /\ nodes' = nodes)]_vars

(***************************************************************************)
(* The hook lists a request through router r reads, and what happened      *)
(* during the last request.                                                *)
(***************************************************************************)
GlobalBefore(r) == Elems(arrays, routers[r].BeforeHooks)

GlobalAfter(r) == Elems(arrays, routers[r].AfterHooks)

\* The group before- and after-hooks of router r, in order.
GroupBeforeOf(r) == Elems(arrays, routers[r].GroupBefore)

GroupAfterOf(r) == Elems(arrays, routers[r].GroupAfter)

HookSites ==
    {"BeforeHooks", "GroupBefore", "closure.GroupBefore", "closure.GroupAfter",
     "AfterHooks", "GroupAfter"}

HandlerSites == {"Handler", "closure.handler"}

\* A before-hook called during the last request returned false.
SomeAbort ==
    \E k \in 1..Len(last.log) :
        /\ last.log[k].site \in {"BeforeHooks", "GroupBefore", "closure.GroupBefore"}
        /\ Outcome(last.log[k].f) = "false"

\* A hook or handler called during the last request panicked.
SomePanic ==
    \E k \in 1..Len(last.log) :
        /\ last.log[k].site \in HookSites \cup HandlerSites
        /\ Outcome(last.log[k].f) = "panic"

\* The last request ran to the end of ServeHTTP's body.
RanThrough ==
    /\ Served /\ ~last.panic /\ ~SomeAbort
    /\ \A k \in 1..Len(last.log) :
           last.log[k].site \notin {"http.Error", "RecoveryHandler"}

(***************************************************************************)
(* C3.  When the i-th global before-hook of the serving router is the      *)
(* first to return false, the calls of the request are exactly the calls   *)
(* of its global before-hooks 1..i, one each, in order: no later hook,     *)
(* no group hook, no handler, no asset or not-found handler, no after-hook *)
(* and no recovery.                                                        *)
(***************************************************************************)
C3_GlobalAbortStopsChain ==
    Served =>
        \A i \in 1..Len(GlobalBefore(last.r)) :
            (/\ Outcome(GlobalBefore(last.r)[i]) = "false"
             /\ \A j \in 1..(i - 1) : Outcome(GlobalBefore(last.r)[j]) = "true")
                => /\ last.log = [j \in 1..i |->
                                     Call("BeforeHooks", GlobalBefore(last.r)[j],
                                          last.r, j, NoArg)]
                   /\ ~last.panic

\* C3's case: the second global before-hook aborted a request for a
\* registered route, after the first had run.
C3_Witness ==
    /\ Served
    /\ Len(GlobalBefore(last.r)) = 2
    /\ Outcome(GlobalBefore(last.r)[1]) = "true"
    /\ Outcome(GlobalBefore(last.r)[2]) = "false"
    /\ \E a \in routes : a.path = ToLower(last.path)
    /\ Len(last.log) = 2

(***************************************************************************)
(* C4.  A group before-hook that returns false is the last call of the     *)
(* request: no later group before-hook, no handler and no after-hook,      *)
(* group or global, follows it.                                            *)
(***************************************************************************)
C4_GroupAbortStopsChain ==
    Served =>
        \A k \in 1..Len(last.log) :
            (/\ last.log[k].site \in {"GroupBefore", "closure.GroupBefore"}
             /\ Outcome(last.log[k].f) = "false")
                => k = Len(last.log)

(***************************************************************************)
(* C5.  For a request that reaches the handler of a route registered       *)
(* through router G, with no abort and no panic, the calls come in the     *)
(* order: global before-hooks, group before-hooks of G, handler, group     *)
(* after-hooks of G, global after-hooks.                                   *)
(***************************************************************************)
\* The place of a call in that order; 0 for the group hooks of a router
\* other than G, which the claim does not order.
Rank(e, G) ==
    CASE e.site = "BeforeHooks" -> 1
      [] e.site \in {"GroupBefore", "closure.GroupBefore"} /\ e.r = G -> 2
      [] e.site \in HandlerSites -> 3
      [] e.site \in {"GroupAfter", "closure.GroupAfter"} /\ e.r = G -> 4
      [] e.site = "AfterHooks" -> 5
      [] OTHER -> 0

C5_HookOrder ==
    RanThrough =>
        \A h \in 1..Len(last.log) :
            last.log[h].site = "closure.handler" =>
                \A j, k \in 1..Len(last.log) :
                    (/\ j < k
                     /\ Rank(last.log[j], last.log[h].r) # 0
                     /\ Rank(last.log[k], last.log[h].r) # 0)
                        => Rank(last.log[j], last.log[h].r)
                               <= Rank(last.log[k], last.log[h].r)

(***************************************************************************)
(* C6.  With no abort and no panic, whenever the not-found handler runs,   *)
(* the after-hooks of the serving router run after it: its global          *)
(* after-hooks and its group after-hooks, each list once and in order.     *)
(***************************************************************************)
\* The callbacks called at this place after position k of the log.
CalledAfter(k, site) ==
    LET rest == SelectSeq(SubSeq(last.log, k + 1, Len(last.log)),
                          LAMBDA e : e.site = site)
    IN  [i \in 1..Len(rest) |-> rest[i].f]

C6_AfterHooksFollowNotFound ==
    RanThrough =>
        \A k \in 1..Len(last.log) :
            last.log[k].site = "NotFound" =>
                /\ CalledAfter(k, "AfterHooks") = GlobalAfter(last.r)
                /\ CalledAfter(k, "GroupAfter") = GroupAfterOf(last.r)

(***************************************************************************)
(* C7.  A request whose handler panics, served by a router with no         *)
(* recovery handler, ends with the fixed 500 response and ServeHTTP        *)
(* returns; the trie and the hook lists are as before, and every request   *)
(* has the outcome afterwards that it had before.                          *)
(***************************************************************************)
HandlerPanicked(log) ==
    \E k \in 1..Len(log) :
        log[k].site \in HandlerSites /\ Outcome(log[k].f) = "panic"

\* The hook lists of every router.
HookLists ==
    [r \in Routers |->
        << GlobalBefore(r), GlobalAfter(r), GroupBeforeOf(r),
           GroupAfterOf(r) >>]

\* The requests of SpecHooks, and what request q gets from a router state.
HookRequests == Routers \X HookRequestPaths

OutcomeIn(ns, rs, arrs, q) == ServeHTTP(ns, rs, arrs, q[1], "GET", q[2], {}).run

C7_HandlerPanicLeavesRouterIntact ==
    [][(/\ last'.op = "ServeHTTP"
        /\ HandlerPanicked(last'.log)
        /\ routers[last'.r].RecoveryHandler = NilFunc)
           => /\ ~last'.panic
              /\ last'.log[Len(last'.log)] = Call("http.Error", "500", last'.r, 0, NoArg)
              /\ nodes' = nodes
              /\ HookLists' = HookLists
              /\ \A q \in HookRequests :
                     OutcomeIn(nodes', routers', arrays', q)
                         = OutcomeIn(nodes, routers, arrays, q)]_vars

\* C7's case: a handler panicked, the fixed response was written and
\* ServeHTTP returned.
C7_Witness ==
    /\ Served /\ HandlerPanicked(last.log)
    /\ routers[last.r].RecoveryHandler = NilFunc
    /\ ~last.panic
    /\ last.log[Len(last.log)].site = "http.Error"

(***************************************************************************)
(* C8.  When a hook or a handler panics, the one call that follows is the  *)
(* recovery: the serving router's recovery handler with the panic value    *)
(* when it has one, the fixed 500 response otherwise; nothing else runs    *)
(* afterwards, and the handler is not called a second time.                *)
(***************************************************************************)
C8_PanicRecoveredOnce ==
    Served =>
        \A k \in 1..Len(last.log) :
            (/\ last.log[k].site \in HookSites \cup HandlerSites
             /\ Outcome(last.log[k].f) = "panic")
                => /\ Len(last.log) = k + 1
                   /\ last.log[k + 1] =
                          IF routers[last.r].RecoveryHandler = NilFunc
                          THEN Call("http.Error", "500", last.r, 0, NoArg)
                          ELSE Call("RecoveryHandler",
                                    routers[last.r].RecoveryHandler.name,
                                    last.r, 0, last.log[k].f)
                   /\ Len(HandlerCalls) <= 1

\* C8's cases: an after-hook panicked after the handler had run and the
\* custom recovery handler got the panic value.
C8_Witness ==
    /\ Served
    /\ Len(HandlerCalls) = 1
    /\ \E k \in 1..Len(last.log) :
        /\ last.log[k].site = "AfterHooks"
        /\ Outcome(last.log[k].f) = "panic"
        /\ last.log[k + 1].site = "RecoveryHandler"
        /\ last.log[k + 1].arg = last.log[k].f

(***************************************************************************)
(* C9.  The group hooks the closure of a route runs around the handler are *)
(* the group hook lists of its router as they stood when the route was     *)
(* registered.                                                             *)
(***************************************************************************)
C9_GroupHooksBoundAtRegistration ==
    RanThrough =>
        \A h \in 1..Len(last.log) : \A a \in routes :
            (/\ last.log[h].site = "closure.handler"
             /\ a.via = "registerRoute" /\ a.r = last.log[h].r
             /\ a.f = last.log[h].f /\ a.path = ToLower(last.path))
                => /\ CalledAt({"closure.GroupBefore"}) = a.GroupBefore
                   /\ CalledAt({"closure.GroupAfter"}) = a.GroupAfter

(***************************************************************************)
(* C10.  When a route registered through router G is served by another     *)
(* router R, the group hooks of G run and no group hook that only R has    *)
(* is called.                                                              *)
(***************************************************************************)
Range(seq) == { seq[i] : i \in 1..Len(seq) }

GroupHooks(r) == Range(GroupBeforeOf(r)) \cup Range(GroupAfterOf(r))

C10_OnlyTheRoutesGroupHooksRun ==
    Served =>
        \A h \in 1..Len(last.log) :
            (last.log[h].site = "closure.handler" /\ last.log[h].r # last.r)
                => /\ \A k \in 1..Len(last.log) :
                       last.log[k].f \notin
                           GroupHooks(last.r) \ GroupHooks(last.log[h].r)
                   /\ RanThrough =>
                          CalledAt({"closure.GroupBefore"})
                              = GroupBeforeOf(last.log[h].r)

(***************************************************************************)
(* C11.  When a hook is registered on router p (a global or a group hook,  *)
(* before or after) while a route registered through a group g of p        *)
(* exists, a request for that route dispatched by p afterwards does not    *)
(* call the hook just registered.                                          *)
(***************************************************************************)
\* t is s with one element appended.
Appended(s, t) == Len(t) = Len(s) + 1 /\ SubSeq(t, 1, Len(s)) = s

\* Router g was made by p.Group(prefix).
IsGroupOf(p, g) ==
    /\ p < g
    /\ \E prefix \in GroupPrefixes : routers[g].Prefix = routers[p].Prefix \o prefix

\* Log entry e is the call of the last hook of `after`, a hook list of
\* router p that ServeHTTP runs at `site`, and that hook was appended to
\* `before` by the step.
CallsAppended(e, p, site, before, after) ==
    /\ Appended(before, after)
    /\ e.site = site /\ e.r = p /\ e.i = Len(after)

C11_LateParentHooksDoNotApply ==
    [][\A p \in Routers : \A a \in routes :
          (calls'.hooks = calls.hooks + 1 /\ IsGroupOf(p, a.r)) =>
              LET log == OutcomeIn(nodes', routers', arrays', << p, a.path >>).log
              IN  \A k \in 1..Len(log) :
                      /\ ~CallsAppended(log[k], p, "BeforeHooks",
                                        Elems(arrays, routers[p].BeforeHooks),
                                        Elems(arrays', routers'[p].BeforeHooks))
                      /\ ~CallsAppended(log[k], p, "AfterHooks",
                                        Elems(arrays, routers[p].AfterHooks),
                                        Elems(arrays', routers'[p].AfterHooks))
                      /\ ~CallsAppended(log[k], p, "GroupBefore",
                                        GroupBeforeOf(p),
                                        GroupBeforeOf(p)')
                      /\ ~CallsAppended(log[k], p, "GroupAfter",
                                        GroupAfterOf(p),
                                        GroupAfterOf(p)')]_vars

(***************************************************************************)
(* C12.  g := p.Group(prefix) gives g the group before- and after-hook     *)
(* lists p has at that time and changes no list of an existing view; and   *)
(* RegisterGroupBeforeHook or RegisterGroupAfterHook on a view appends the *)
(* hook to that list of that view and leaves its other list and both lists *)
(* of every other view (parent, child, sibling) as they were.              *)
(***************************************************************************)
GroupLists(r) == << GroupBeforeOf(r), GroupAfterOf(r) >>

C12_GroupHookListsAreCopies ==
    [][/\ \A p \in Routers : \A prefix \in GroupPrefixes :
            GroupCall(p, prefix) =>
                /\ << Elems(arrays', routers'[Len(routers')].GroupBefore),
                      Elems(arrays', routers'[Len(routers')].GroupAfter) >>
                       = GroupLists(p)
                /\ \A o \in Routers : GroupLists(o)' = GroupLists(o)
       /\ \A r \in Routers : \A f \in GroupBeforeHookFuncs :
            RegisterGroupBeforeHook(r, f) =>
                /\ GroupBeforeOf(r)' = Append(GroupBeforeOf(r), f)
                /\ GroupAfterOf(r)' = GroupAfterOf(r)
                /\ \A o \in Routers \ {r} : GroupLists(o)' = GroupLists(o)
       /\ \A r \in Routers : \A f \in GroupAfterHookFuncs :
            RegisterGroupAfterHook(r, f) =>
                /\ GroupAfterOf(r)' = Append(GroupAfterOf(r), f)
                /\ GroupBeforeOf(r)' = GroupBeforeOf(r)
                /\ \A o \in Routers \ {r} : GroupLists(o)' = GroupLists(o)]_vars

\* C12's case: a group was made of a parent whose group before-hook slice
\* had room for one more hook, and then the group and the parent each
\* registered a hook of their own: the two lists agree on the hooks the
\* parent had at the time and differ in the hook appended since.
C12_Witness ==
    \E p, g \in Routers :
        /\ IsGroupOf(p, g)
        /\ routers[p].GroupBefore.len = 4 /\ routers[p].GroupBefore.cap = 4
        /\ Len(GroupBeforeOf(g)) = 4
        /\ SubSeq(GroupBeforeOf(g), 1, 3) = SubSeq(GroupBeforeOf(p), 1, 3)
        /\ GroupBeforeOf(g)[4] # GroupBeforeOf(p)[4]

(***************************************************************************)
(* The walk of a request, stated for the properties: which child of a node *)
(* takes a segment.                                                        *)
(***************************************************************************)
\* The segments of the last request, as ServeHTTP splits them.
Segments == splitPath(ToLower(last.path))

\* The pattern of a Regex node without the parameter's name, and the name.
RegexOf(n) == SplitN2(nodes[n].Pattern, ":")[2]

NameOf(n) ==
    IF nodes[n].NodeType = Regex THEN SplitN2(nodes[n].Pattern, ":")[1]
    ELSE nodes[n].Pattern

\* Node n is a Regex node whose pattern does not compile.
Malformed(n) == nodes[n].NodeType = Regex /\ CompileFails(RegexOf(n))

\* The test ServeHTTP makes on child n for a segment succeeds.
Accepts(n, method, part) ==
    /\ nodes[n].Method = method
    /\ CASE nodes[n].NodeType = Static -> nodes[n].Pattern = part
         [] nodes[n].NodeType = Param -> TRUE
         [] OTHER -> ~Malformed(n) /\ FindString(RegexOf(n), part) = part

\* Child n ends the scan of its parent's children for a segment: it takes
\* the segment, or compiling its pattern fails.
Engages(n, method, part) ==
    Accepts(n, method, part) \/ (nodes[n].Method = method /\ Malformed(n))

\* The positions in the Children of n of the children that end the scan.
Engaging(n, method, part) ==
    { j \in 1..Len(nodes[n].Children) : Engages(nodes[n].Children[j], method, part) }

\* The child of n the scan stops at: the first in registration order that
\* engages the segment; 0 when there is none.
FirstEngaging(n, method, part) ==
    IF Engaging(n, method, part) = {} THEN 0
    ELSE nodes[n].Children[CHOOSE j \in Engaging(n, method, part) :
                               \A k \in Engaging(n, method, part) : j <= k]

\* Where a walk from node n over these segments ends: at a node, at 0 when
\* no child takes a segment, at -1 when compiling a pattern fails.
RECURSIVE Reached(_, _, _)
Reached(n, parts, method) ==
    IF parts = << >> THEN n
    ELSE LET c == FirstEngaging(n, method, Head(parts))
         IN  IF c = 0 THEN 0
             ELSE IF Malformed(c) THEN -1
             ELSE Reached(c, Tail(parts), method)

\* The node the walk of the last request ends at.
ReachedNode == Reached(1, Segments, last.method)

\* The set of the positions after the matches of pattern p from its k-th
\* atom against s from position i, and whether p matches the whole of s.
RECURSIVE MatchEnds(_, _, _, _)
MatchEnds(p, k, s, i) ==
    IF k > Len(p) THEN {i}
    ELSE IF k < Len(p) /\ IsRepeat(p[k + 1])
    THEN UNION { MatchEnds(p, k + 2, s, i + n) :
                     n \in (IF p[k + 1] = "+" THEN 1 ELSE 0)..Run(p[k], s, i) }
    ELSE IF i <= Len(s) /\ AtomMatches(p[k], s[i])
    THEN MatchEnds(p, k + 1, s, i + 1)
    ELSE {}

WhollyMatches(p, s) == (Len(s) + 1) \in MatchEnds(p, 1, s, 1)

\* The handler of route a was called during the last request.
Handled(a) == \E k \in 1..Len(HandlerCalls) : HandlerCalls[k] = a.f

(***************************************************************************)
(* C13.  For a request of one segment and a route whose one segment is a   *)
(* Regex node that no earlier sibling of its method precedes: the route's  *)
(* handler is called if and only if the node's method is the request's and *)
(* the pattern matches the whole segment, it then sees params[name] equal  *)
(* to the segment, and when the node does not take the segment and no      *)
(* other child of the method is there the asset fallback is called.  The   *)
(* empty segment is a segment like any other.                              *)
(***************************************************************************)
C13_RegexAcceptsWholeMatchesOnly ==
    Served =>
        \A a \in routes :
            (/\ Parent(a.node) = 1
             /\ nodes[a.node].NodeType = Regex /\ ~Malformed(a.node)
             /\ \A s \in EarlierSiblings(a.node) : nodes[s].Method # a.method
             /\ Len(Segments) = 1)
                => /\ Handled(a) <=>
                          (/\ a.method = last.method
                           /\ WhollyMatches(RegexOf(a.node), Segments[1]))
                   /\ Handled(a) =>
                          /\ NameOf(a.node) \in DOMAIN last.params
                          /\ last.params[NameOf(a.node)] = Segments[1]
                   /\ (/\ ~Handled(a)
                       /\ \A j \in 1..Len(nodes[1].Children) :
                              nodes[1].Children[j] # a.node =>
                                  nodes[nodes[1].Children[j]].Method # last.method)
                          => Len(CalledAt({"Assets"})) = 1

(***************************************************************************)
(* C14.  For a route whose i-th segment is ':name' and whose other         *)
(* segments are literal, when no child registered before the route's node  *)
(* at position i takes the request's i-th segment, a request of the        *)
(* route's method with the same literal segments and any non-empty i-th    *)
(* segment calls the route's handler, and no other, with ctx.Params[name]  *)
(* equal to the lower-cased i-th segment, name being the name the          *)
(* application wrote in the route's path.                                  *)
(***************************************************************************)
\* The segments of route a as they are stored, and its node at depth i.
SegmentsOf(a) == splitPath(a.path)

NodeAt(a, i) == CHOOSE n \in Chain(a.node) : nodes[n].Level = i

\* The name of the i-th segment of route a as the application wrote it.
GivenName(a, i) == getNodeTypeAndPattern(splitPath(a.given)[i]).pattern

\* No child registered before the route's node at depth i ends the scan for
\* the i-th segment of the last request.
FirstAt(a, i) ==
    \A s \in EarlierSiblings(NodeAt(a, i)) : ~Engages(s, last.method, Segments[i])

\* The last request is one for route a with a non-empty segment at the
\* position i of its one ':name' segment.
RequestsParamRoute(a, i) ==
    /\ a.method = last.method
    /\ Len(Segments) = Len(SegmentsOf(a))
    /\ i \in 1..Len(SegmentsOf(a))
    /\ nodes[NodeAt(a, i)].NodeType = Param
    /\ Segments[i] # EmptyString
    /\ \A j \in 1..Len(SegmentsOf(a)) :
           j # i => /\ nodes[NodeAt(a, j)].NodeType = Static
                    /\ Segments[j] = SegmentsOf(a)[j]

\* The handler of route a, and no other, ran with the i-th segment bound to
\* the name the application gave.
HandledWithParam(a, i) ==
    /\ HandlerCalls = << a.f >>
    /\ GivenName(a, i) \in DOMAIN last.params
    /\ last.params[GivenName(a, i)] = Segments[i]

\* The same with the segment bound to the name the route's node stores.
HandledWithStoredParam(a, i) ==
    /\ HandlerCalls = << a.f >>
    /\ NameOf(NodeAt(a, i)) \in DOMAIN last.params
    /\ last.params[NameOf(NodeAt(a, i))] = Segments[i]

C14_ParamRouteTakesAnySegment ==
    Served =>
        \A a \in routes : \A i \in 1..Len(Segments) :
            (RequestsParamRoute(a, i) /\ FirstAt(a, i)) => HandledWithParam(a, i)

\* What holds: when at every depth of the route, not only at position i,
\* no child registered before the route's node takes the request's segment,
\* the handler runs with the segment bound to the stored name, which is the
\* given name in lower case for a route registered through GET, POST, ...
C14_ParamRouteTakesAnySegmentWhenFirst ==
    Served =>
        \A a \in routes : \A i \in 1..Len(Segments) :
            (/\ RequestsParamRoute(a, i)
             /\ \A j \in 1..Len(Segments) : FirstAt(a, j))
                => /\ HandledWithStoredParam(a, i)
                   /\ a.via = "registerRoute"
                          => NameOf(NodeAt(a, i)) = ToLower(GivenName(a, i))

(***************************************************************************)
(* C15.  Two routes of one method end at children of the same node, one a  *)
(* Param or Regex node, the other a Static node, and a request of that     *)
(* method reaches their parent with one segment left.  When the Param or   *)
(* Regex child was registered first and is the first child to take the     *)
(* segment, its route's handler is called, and no other, also when the     *)
(* segment is the Static child's literal; when the Static child was        *)
(* registered first and is the first child to take the segment, its        *)
(* route's handler is called, and no other.                                *)
(***************************************************************************)
\* Routes a and b end at two children of one node, and the last request,
\* of their method, reaches that node with one segment left.
AtSiblings(a, b) ==
    /\ a.node # b.node
    /\ Parent(a.node) = Parent(b.node)
    /\ a.method = last.method /\ b.method = last.method
    /\ Len(Segments) = nodes[a.node].Level
    /\ Reached(1, SubSeq(Segments, 1, Len(Segments) - 1), last.method)
           = Parent(a.node)

\* Node n is the first child of its parent to take the last segment of the
\* last request.
TakesLast(n) ==
    /\ Accepts(n, last.method, Segments[Len(Segments)])
    /\ FirstEngaging(Parent(n), last.method, Segments[Len(Segments)]) = n

C15_FirstCompatibleChildWins ==
    Served =>
        \A a, b \in routes :
            (/\ AtSiblings(a, b)
             /\ nodes[a.node].NodeType \in {Param, Regex}
             /\ nodes[b.node].NodeType = Static)
                => /\ (a.node \in EarlierSiblings(b.node) /\ TakesLast(a.node))
                          => HandlerCalls = << a.f >>
                   /\ (b.node \in EarlierSiblings(a.node) /\ TakesLast(b.node))
                          => HandlerCalls = << b.f >>

\* C15's case: the Param or Regex child was registered first and the
\* request's segment is the literal of the Static child; the handler of
\* the Param or Regex route ran with the literal as its parameter.
C15_Witness ==
    /\ Served
    /\ \E a, b \in routes :
          /\ AtSiblings(a, b)
          /\ nodes[a.node].NodeType \in {Param, Regex}
          /\ nodes[b.node].NodeType = Static
          /\ a.node \in EarlierSiblings(b.node)
          /\ Segments[Len(Segments)] = nodes[b.node].Pattern
          /\ HandlerCalls = << a.f >>
          /\ last.params[NameOf(a.node)] = nodes[b.node].Pattern

(***************************************************************************)
(* C16.  The asset handler is called during a request exactly when the     *)
(* request's walk of the trie fails at some depth, then once and with the  *)
(* request path as it was given; when it returns false the not-found       *)
(* handler is not called, and when it returns true the not-found handler   *)
(* is called once.                                                         *)
(***************************************************************************)
\* No before-hook of the serving router stopped the last request before
\* the walk.
WalkStarted ==
    /\ Served
    /\ \A k \in 1..Len(last.log) :
           last.log[k].site \in {"BeforeHooks", "GroupBefore"}
               => Outcome(last.log[k].f) = "true"

\* The walk of the last request found no child for some segment.
WalkFailed == WalkStarted /\ ReachedNode = 0

\* What the asset handler called during the last request returned.
AssetsNotHandled ==
    \A k \in 1..Len(last.log) :
        last.log[k].site = "Assets" =>
            IF last.log[k].f = "defaultAssetsHandler"
            THEN defaultAssetsHandler(last.path, last.files)
            ELSE Outcome(last.log[k].f) = "true"

C16_AssetFallbackOnFailedWalkOnly ==
    Served =>
        /\ Len(CalledAt({"Assets"})) = (IF WalkFailed THEN 1 ELSE 0)
        /\ \A k \in 1..Len(last.log) :
               last.log[k].site = "Assets" => last.log[k].arg = last.path
        /\ WalkFailed =>
               Len(CalledAt({"NotFound"})) = (IF AssetsNotHandled THEN 1 ELSE 0)

(***************************************************************************)
(* C17.  As stated: when the walk takes every segment of the request path  *)
(* and ends at a node without handler, or when the request path is that of *)
(* a route registered under another method and no route of the request's   *)
(* method is registered, the not-found handler is called once and no       *)
(* route's handler is called.                                              *)
(***************************************************************************)
\* The walk of the last request took every segment and ended at a node
\* that has no handler.
EndsWithoutHandler ==
    /\ WalkStarted /\ ReachedNode > 0
    /\ nodes[ReachedNode].Handler = NilFunc

\* The path of the last request is that of a literal route of another
\* method, and no route has the request's method.
OnlyUnderAnotherMethod ==
    /\ WalkStarted
    /\ \E a \in routes : IsLiteral(a.path) /\ SegmentsOf(a) = Segments
    /\ \A a \in routes : a.method # last.method

NotFoundOnceAndNoHandler ==
    /\ Len(CalledAt({"NotFound"})) = 1
    /\ HandlerCalls = << >>

C17_NoHandlerMeansNotFound ==
    (EndsWithoutHandler \/ OnlyUnderAnotherMethod) => NotFoundOnceAndNoHandler

\* C17, amended: the same for the walk that takes every segment and ends at
\* a node without handler; a path registered under another method only is
\* not such a walk (the nodes of a route carry its method, so the walk
\* fails and the asset fallback comes first).
C17_WalkToNodeWithoutHandlerMeansNotFound ==
    EndsWithoutHandler => NotFoundOnceAndNoHandler

\* C17's case: the request path is a proper prefix of a route's path, the
\* walk ended at the route's first node and the not-found handler ran.
C17_Witness ==
    /\ EndsWithoutHandler
    /\ \E a \in routes :
          /\ Len(SegmentsOf(a)) = 2 /\ Len(Segments) = 1
          /\ ReachedNode = NodeAt(a, 1)
    /\ NotFoundOnceAndNoHandler
    /\ CalledAt({"Assets"}) = << >>

(***************************************************************************)
(* C18.  A registration through a view (the router or a group, nested or   *)
(* not) of a path p stores the route at the view's accumulated prefix      *)
(* followed by p: when it succeeds and the route is literal and not        *)
(* shadowed, the router dispatches a request for prefix + p to its         *)
(* handler; and when a route of the same method is already stored at       *)
(* prefix + p, registered through another view, the registration panics.   *)
(***************************************************************************)
C18_ViewsShareOneTrie ==
    [][(last'.op = "registerRoute" /\ calls'.routes = calls.routes + 1) =>
          /\ (\E a \in routes :
                 /\ a.method = last'.method /\ a.path = last'.path
                 /\ a.r # last'.r)
                => last'.panic
          /\ ~last'.panic =>
                \A a \in routes' \ routes :
                    /\ a.path = ToLower(routers[a.r].Prefix) \o
                                    SubSeq(a.path, Len(routers[a.r].Prefix) + 1,
                                           Len(a.path))
                    /\ (IsLiteral(a.path) /\ Undiverted(a.node)') =>
                           \E k \in 1..Len(OutcomeIn(nodes', routers', arrays',
                                                     << 1, a.path >>).log) :
                               OutcomeIn(nodes', routers', arrays',
                                         << 1, a.path >>).log[k]
                                   = Call("closure.handler", a.f, a.r, 0, NoArg)]_vars

(***************************************************************************)
(* C19.  When a route's handler has run during a request, GetParams of the *)
(* request its context holds (ctx.Req, the same from the first hook to the *)
(* last) gives the map the walk filled, the one ctx.Params points to.      *)
(***************************************************************************)
C19_GetParamsOfCtxReq ==
    (Served /\ HandlerCalls # << >>) =>
        GetParams(last.ctxReq) = [isNil |-> FALSE, map |-> last.params]

(***************************************************************************)
(* C20.  Registering a route with a regular-expression segment whose       *)
(* pattern does not compile does not panic.  Afterwards a request whose    *)
(* walk scans the new node with the node's method ends with the recovery   *)
(* response and ServeHTTP returns, and every other request has the outcome *)
(* it had before the route was registered.                                 *)
(***************************************************************************)
\* The requests of SpecMatch, and what request q gets from a router state.
MatchRequests == Methods \X MatchRequestPaths

MatchOutcomeIn(ns, rs, arrs, q) == ServeHTTP(ns, rs, arrs, 1, q[1], q[2], {}).run

\* A segment of the path is a regular-expression segment whose pattern does
\* not compile.
HasMalformedSegment(path) ==
    \E i \in 1..Len(splitPath(path)) :
        /\ getNodeTypeAndPattern(splitPath(path)[i]).nodeType = Regex
        /\ CompileFails(getNodeTypeAndPattern(splitPath(path)[i]).pattern)

\* The walk from node n over these segments comes to test node `target`, a
\* node of the request's method: target is a child of a node the walk
\* visits and no child before it ends the scan.
RECURSIVE Scans(_, _, _, _)
Scans(n, parts, method, target) ==
    IF parts = << >> THEN FALSE
    ELSE \E c \in {FirstEngaging(n, method, Head(parts))}, rest \in {Tail(parts)} :
             \/ /\ nodes[target].Method = method
                /\ \E j \in 1..Len(nodes[n].Children) :
                       /\ nodes[n].Children[j] = target
                       /\ \A k \in Engaging(n, method, Head(parts)) : j <= k
             \/ /\ c # 0 /\ ~Malformed(c)
                /\ Scans(c, rest, method, target)

C20_MalformedPatternFailsAtMatchTime ==
    [][(/\ last'.op = "registerRoute"
        /\ calls'.routes = calls.routes + 1
        /\ HasMalformedSegment(last'.path))
           => /\ ~last'.panic
              /\ Len(nodes') > Len(nodes)
              /\ \A q \in MatchRequests :
                     IF \E n \in (Len(nodes) + 1)..Len(nodes') :
                            Malformed(n)'
                                /\ Scans(1, splitPath(ToLower(q[2])), q[1], n)'
                     THEN /\ MatchOutcomeIn(nodes', routers', arrays', q).status
                                 = "return"
                          /\ MatchOutcomeIn(nodes', routers', arrays', q).log
                                 = << Call("http.Error", "500", 1, 0, NoArg) >>
                     ELSE MatchOutcomeIn(nodes', routers', arrays', q)
                              = MatchOutcomeIn(nodes, routers, arrays, q)]_vars

\* The walk from node n over these segments goes to node `target`.
RECURSIVE Visits(_, _, _, _)
Visits(n, parts, method, target) ==
    IF parts = << >> THEN FALSE
    ELSE \E c \in {FirstEngaging(n, method, Head(parts))}, rest \in {Tail(parts)} :
             /\ c # 0 /\ ~Malformed(c)
             /\ (c = target \/ Visits(c, rest, method, target))

\* C20, amended: the requests that have the outcome they had before the
\* route was registered are those whose walk neither scans the malformed
\* node nor goes to a node the registration made for an earlier segment of
\* the route.
C20_MalformedPatternFailsWhenScanned ==
    [][(/\ last'.op = "registerRoute"
        /\ calls'.routes = calls.routes + 1
        /\ HasMalformedSegment(last'.path))
           => /\ ~last'.panic
              /\ Len(nodes') > Len(nodes)
              /\ \A q \in MatchRequests :
                     IF \E n \in (Len(nodes) + 1)..Len(nodes') :
                            Malformed(n)'
                                /\ Scans(1, splitPath(ToLower(q[2])), q[1], n)'
                     THEN /\ MatchOutcomeIn(nodes', routers', arrays', q).status
                                 = "return"
                          /\ MatchOutcomeIn(nodes', routers', arrays', q).log
                                 = << Call("http.Error", "500", 1, 0, NoArg) >>
                     ELSE (\A n \in (Len(nodes) + 1)..Len(nodes') :
                               ~Visits(1, splitPath(ToLower(q[2])), q[1], n)')
                              => MatchOutcomeIn(nodes', routers', arrays', q)
                                     = MatchOutcomeIn(nodes, routers, arrays, q)]_vars

\* C20's case: two routes of one method are registered, one of two segments
\* whose second has a pattern that does not compile; a request of that
\* method whose walk went to the node of the first segment and scanned the
\* malformed node got the recovery response and ServeHTTP returned.
C20_Witness ==
    /\ Served /\ Cardinality(routes) = 2 /\ ~last.panic
    /\ \A a \in routes : a.method = last.method
    /\ \E a \in routes :
          /\ Malformed(a.node) /\ nodes[a.node].Level = 2
          /\ Scans(1, Segments, last.method, a.node)
    /\ last.log = << Call("http.Error", "500", 1, 0, NoArg) >>

(***************************************************************************)
(* C21.  No two children of a node have the same node type, pattern text   *)
(* and method: AddRoute descends into the child that has them instead of   *)
(* appending another, for Static, Param and Regex segments alike.          *)
(***************************************************************************)
\* The children of node n at positions i and j are told apart by none of
\* node type, pattern and method.
SameTriple(n, i, j) ==
    /\ nodes[nodes[n].Children[i]].NodeType = nodes[nodes[n].Children[j]].NodeType
    /\ nodes[nodes[n].Children[i]].Pattern = nodes[nodes[n].Children[j]].Pattern
    /\ nodes[nodes[n].Children[i]].Method = nodes[nodes[n].Children[j]].Method

C21_NoDuplicateSiblings ==
    \A n \in 1..Len(nodes) : \A i, j \in 1..Len(nodes[n].Children) :
        i # j => ~SameTriple(n, i, j)

\* The same for the children that are not Regex nodes.
C21_NoDuplicateStaticOrParamSiblings ==
    \A n \in 1..Len(nodes) : \A i, j \in 1..Len(nodes[n].Children) :
        (i # j /\ nodes[nodes[n].Children[i]].NodeType # Regex)
            => ~SameTriple(n, i, j)

(***************************************************************************)
(* C22.  After any sequence of registration calls, failed ones included, a *)
(* node has a handler if and only if the path of a successful registration *)
(* of the node's method ends at it: the nodes from the root down to it are *)
(* those of the segments of the registration's path.  The root has no      *)
(* handler, also when "/" is registered.                                   *)
(***************************************************************************)
\* The Pattern AddRoute stores in the node of a path segment.
StoredPattern(part) ==
    IF getNodeTypeAndPattern(part).nodeType = Regex
    THEN getNodeTypeAndPattern(part).paramName \o << ":" >>
             \o getNodeTypeAndPattern(part).pattern
    ELSE getNodeTypeAndPattern(part).pattern

\* The nodes from the root's child down to n are those of the segments of
\* the path, under this method: each is a node AddRoute takes for the
\* segment, one whose Pattern is the segment's pattern, or makes for it,
\* with the Pattern it stores.
EndsAt(method, path, n) ==
    /\ nodes[n].Level = Len(splitPath(path))
    /\ \A m \in Chain(n) :
           /\ nodes[m].Method = method
           /\ nodes[m].NodeType
                  = getNodeTypeAndPattern(splitPath(path)[nodes[m].Level]).nodeType
           /\ nodes[m].Pattern \in
                  { getNodeTypeAndPattern(splitPath(path)[nodes[m].Level]).pattern,
                    StoredPattern(splitPath(path)[nodes[m].Level]) }

\* The func value the registration handed to AddRoute.
HandlerOf(a) == IF a.via = "AddRoute" THEN Func(a.f) ELSE Closure(a.r, a.f)

C22_HandlerIffRegistrationEndsAtNode ==
    /\ nodes[1].Handler = NilFunc
    /\ \A n \in 1..Len(nodes) :
           nodes[n].Handler # NilFunc <=>
               \E a \in routes : EndsAt(a.method, a.path, n)

\* What holds: a node has a handler if and only if the walk of a successful
\* registration ended at it, and the handler is that registration's.
C22_HandlerIffRegistrationWalkEndedAtNode ==
    /\ nodes[1].Handler = NilFunc
    /\ \A n \in 1..Len(nodes) :
           nodes[n].Handler # NilFunc <=>
               \E a \in routes :
                   /\ a.node = n /\ n # 1
                   /\ EndsAt(a.method, a.path, n)
                   /\ nodes[n].Handler = HandlerOf(a)
    /\ \A a \in routes : nodes[a.node].Handler = HandlerOf(a)

(***************************************************************************)
(* C23.  A call of ServeHTTP, whatever its outcome, leaves the trie, the   *)
(* backing arrays of the hook slices and the four hook lists of every      *)
(* router as they were; of the fields of the routers it changes at most    *)
(* the Param field of the router that serves, which then holds the map the *)
(* walk of this request filled.                                            *)
(***************************************************************************)
C23_ServeHTTPWritesParamOnly ==
    [][last'.op = "ServeHTTP" =>
          /\ nodes' = nodes
          /\ arrays' = arrays
          /\ Len(routers') = Len(routers)
          /\ \A r \in Routers :
                 /\ GlobalBefore(r)' = GlobalBefore(r)
                 /\ GlobalAfter(r)' = GlobalAfter(r)
                 /\ GroupLists(r)' = GroupLists(r)
                 /\ [routers'[r] EXCEPT !.Param = routers[r].Param] = routers[r]
                 /\ r # last'.r => routers'[r] = routers[r]
          /\ routers'[last'.r].Param \in {routers[last'.r].Param, last'.params}]_vars

\* C23's case: a request with a parameter segment was served through the
\* group, past a global before-hook, by the route's handler; the group's
\* Param field holds the request's map and the router's still the empty one.
C23_Witness ==
    /\ Served /\ Len(routers) = 2 /\ last.r = 2
    /\ HandlerCalls # << >>
    /\ GlobalBefore(2) # << >>
    /\ last.params # EmptyMap
    /\ routers[2].Param = last.params
    /\ routers[1].Param = EmptyMap

(***************************************************************************)
(* C24.  The Param field of the router is one cell that every request      *)
(* assigns: at any time it holds the map of one of the requests that have  *)
(* assigned it, and that is what a handler reading it gets, its own        *)
(* request's map or another's.  With two requests in flight that bind      *)
(* different values there is an interleaving in which the handler of one   *)
(* reads the parameters of the other.                                      *)
(***************************************************************************)
\* The maps of the calls in flight that have assigned r.Param.
Written == { reqs[q].run.params : q \in { o \in DOMAIN reqs : reqs[o].wrote } }

C24_ParamIsSharedByAllRequests ==
    /\ routers[1].Param \in (IF Written = {} THEN {EmptyMap} ELSE Written)
    /\ \A p \in DOMAIN reqs : \A k \in 1..Len(reqs[p].seen) :
           reqs[p].seen[k].site \in HandlerSites
               => reqs[p].seen[k].router \in Written

\* C24's case: two requests for the route "/:x" with different segments are
\* in flight, and the handler of one has read from r.Param the map of the
\* other, which binds another value than its own.
C24_Witness ==
    \E p, q \in DOMAIN reqs :
        /\ p # q /\ reqs[p].wrote /\ reqs[q].wrote
        /\ DOMAIN reqs[p].run.params = DOMAIN reqs[q].run.params
        /\ reqs[p].run.params # reqs[q].run.params
        /\ \E k \in 1..Len(reqs[p].seen) :
              /\ reqs[p].seen[k].site \in HandlerSites
              /\ reqs[p].seen[k].ctx = reqs[p].run.params
              /\ reqs[p].seen[k].router = reqs[q].run.params

(***************************************************************************)
(* C25.  A literal route, registered through GET, POST, ... or through     *)
(* AddRoute itself, with a path in any letter case, is matched by a        *)
(* request of its method whose path is the route's in any letter case: the *)
(* route's handler is called, once, and no other (for a route none of      *)
(* whose nodes is behind a Param or Regex sibling of its method).          *)
(***************************************************************************)
\* The last request is a request for route a but for the case of letters.
RequestsIgnoringCase(a) ==
    /\ IsLiteral(a.given)
    /\ last.method = a.method
    /\ ToLower(last.path) = ToLower(a.given)
    /\ Undiverted(a.node)

C25_MatchingIgnoresCase ==
    (Served /\ NoRepeat) =>
        \A a \in routes : RequestsIgnoringCase(a) => HandlerCalls = << a.f >>

\* The same for the routes registered through GET, POST, ...
C25_MatchingIgnoresCaseOfHelperRoutes ==
    (Served /\ NoRepeat) =>
        \A a \in routes :
            (a.via = "registerRoute" /\ RequestsIgnoringCase(a)
             /\ \A b \in routes : b.via = "registerRoute")
                => HandlerCalls = << a.f >>

(***************************************************************************)
(* C26.  With every hook function registered once, no hook function is     *)
(* called more than once during a request, whichever router it was         *)
(* registered on, whichever router the route was registered through and    *)
(* whichever router serves.                                                *)
(***************************************************************************)
\* The hook functions in the lists of the routers.
AllHooks ==
    UNION { Range(GlobalBefore(r)) \cup Range(GlobalAfter(r)) \cup GroupHooks(r) :
                r \in Routers }

\* No hook function was registered twice.
HooksRegisteredOnce == Cardinality(AllHooks) = calls.hooks

\* The number of calls of hook function f during the last request.
TimesCalled(f) ==
    Cardinality({ k \in 1..Len(last.log) :
                      last.log[k].site \in HookSites /\ last.log[k].f = f })

C26_HooksRunAtMostOnce ==
    (Served /\ HooksRegisteredOnce) => \A f \in AllHooks : TimesCalled(f) <= 1

\* The same for the global hooks.
C26_GlobalHooksRunAtMostOnce ==
    (Served /\ HooksRegisteredOnce) =>
        \A f \in AllHooks \ UNION { GroupHooks(r) : r \in Routers } :
            TimesCalled(f) <= 1

(***************************************************************************)
(* C27.  No request has the empty string bound to a parameter: the map     *)
(* ctx.Params points to at the end of a request has no name whose value is *)
(* the empty string, a Param node having taken no empty segment and a      *)
(* Regex node none that its pattern does not match.                        *)
(***************************************************************************)
\* The names the map of the last request binds to the empty string.
BoundToEmpty == { name \in DOMAIN last.params : last.params[name] = EmptyString }

\* The Regex nodes whose pattern, which compiles, matches the empty string.
MatchesEmpty(n) ==
    nodes[n].NodeType = Regex /\ ~Malformed(n) /\ WhollyMatches(RegexOf(n), EmptyString)

C27_EmptySegmentIsNeverBound ==
    Served =>
        \/ BoundToEmpty = {}
        \/ \E n \in 1..Len(nodes) : MatchesEmpty(n)

(***************************************************************************)
(* C28.  With registration finished before serving, in every interleaving  *)
(* of the requests in flight, the map ctx.Params that a hook or handler of *)
(* a request reads holds the bindings made by that request's own walk up   *)
(* to the call (none yet for a before-hook) and nothing else.  The same    *)
(* holds of the asset and not-found handlers; the recovery handler reads   *)
(* the nil map of the context made for it.                                 *)
(***************************************************************************)
\* The bindings the walk of the segments `parts` from node n makes, added
\* to params in the order of the segments.
RECURSIVE Bindings(_, _, _, _)
Bindings(n, parts, method, params) ==
    IF parts = << >> THEN params
    ELSE LET c == FirstEngaging(n, method, Head(parts))
         IN  IF c = 0 \/ Malformed(c) THEN params
             ELSE Bindings(c, Tail(parts), method,
                           IF nodes[c].NodeType = Static THEN params
                           ELSE MapPut(params, NameOf(c), Head(parts)))

\* The bindings of the walk of call p.
OwnBindings(p) ==
    Bindings(routers[reqs[p].r].Root, splitPath(ToLower(reqs[p].path)),
             reqs[p].method, EmptyMap)

C28_CtxParamsAreRequestLocal ==
    \A p \in DOMAIN reqs : \A k \in 1..Len(reqs[p].seen) :
        reqs[p].seen[k].ctx =
            IF reqs[p].seen[k].site
                   \in {"BeforeHooks", "GroupBefore", "RecoveryHandler"}
            THEN EmptyMap
            ELSE OwnBindings(p)

\* C28's case: two requests that bind different values to the same name
\* have run to their end, interleaved so that a callback of one ran while
\* r.Param held the map of the other; the before-hook, the handler and the
\* after-hook of each have read the bindings of their own request.
C28_Witness ==
    \E p, q \in DOMAIN reqs :
        /\ p # q /\ reqs[p].pc = "done" /\ reqs[q].pc = "done"
        /\ DOMAIN OwnBindings(p) = DOMAIN OwnBindings(q)
        /\ OwnBindings(p) # OwnBindings(q)
        /\ \A o \in {p, q} :
              /\ { reqs[o].seen[k].site : k \in 1..Len(reqs[o].seen) }
                     = {"BeforeHooks", "closure.handler", "AfterHooks"}
              /\ \A k \in 2..Len(reqs[o].seen) : reqs[o].seen[k].ctx = OwnBindings(o)
        /\ \E k \in 1..Len(reqs[p].seen) :
              /\ reqs[p].seen[k].site = "AfterHooks"
              /\ reqs[p].seen[k].router = OwnBindings(q)

(***************************************************************************)
(* C29.  ServeHTTP returns normally from every request: no panic of a      *)
(* hook, a handler, the not-found or asset handler or the recovery handler *)
(* goes on to its caller.                                                  *)
(***************************************************************************)
C29_NoPanicEscapes == Served => ~last.panic

\* The same for the requests during which the recovery handler does not
\* itself panic.
C29_NoPanicEscapesRecoveryAside ==
    (/\ Served
     /\ \A k \in 1..Len(last.log) :
            last.log[k].site = "RecoveryHandler" => Outcome(last.log[k].f) # "panic")
        => ~last.panic

(***************************************************************************)
(* C30.  A request served by a group has the same kind of outcome as the   *)
(* same request served by the router the group was made from, when the two *)
(* hold the same hooks and no recovery handler is set: in particular a     *)
(* request whose walk fails gets the asset fallback and the not-found      *)
(* handler from the group as it does from its parent, not the recovery     *)
(* response.                                                               *)
(***************************************************************************)
\* The kind of outcome of a request that made these calls.
OutcomeKind(log) ==
    LET sites == { log[k].site : k \in 1..Len(log) }
    IN  CASE sites \cap {"http.Error", "RecoveryHandler"} # {} -> "recovery"
          [] "NotFound" \in sites -> "not-found"
          [] sites \cap HandlerSites # {} -> "handler"
          [] "Assets" \in sites -> "asset"
          [] OTHER -> "abort"

\* Group g and its parent p hold the same hooks, and p no recovery handler.
SameHooks(p, g) ==
    /\ IsGroupOf(p, g)
    /\ HookLists[p] = HookLists[g]
    /\ routers[p].RecoveryHandler = NilFunc

C30_GroupViewServesLikeParent ==
    \A p, g \in Routers : \A path \in HookRequestPaths :
        SameHooks(p, g) =>
            OutcomeKind(OutcomeIn(nodes, routers, arrays, << g, path >>).log)
                = OutcomeKind(OutcomeIn(nodes, routers, arrays, << p, path >>).log)

\* The same for the requests whose walk takes every segment.
C30_GroupViewServesLikeParentWhenWalkSucceeds ==
    \A p, g \in Routers : \A path \in HookRequestPaths :
        (SameHooks(p, g) /\ Reached(1, splitPath(ToLower(path)), "GET") > 0) =>
            OutcomeKind(OutcomeIn(nodes, routers, arrays, << g, path >>).log)
                = OutcomeKind(OutcomeIn(nodes, routers, arrays, << p, path >>).log)

=============================================================================
